---------------------------- MODULE Spec2Model ----------------------------
(***************************************************************************)
(* Model of the styling core of ycode-open:                                *)
(*   - src/lib/tailwind-class-mapper.ts  (class/design mapper)             *)
(*   - src/public/canvas-renderer.js     (canvas renderer)                 *)
(*   - src/app/ycode/components/YCodeBuilderMain.tsx  (host builder)       *)
(* Class tokens are TLA+ strings; the regular expressions of the source    *)
(* are written out as matchers over the characters of the string.          *)
(***************************************************************************)
EXTENDS Integers, Sequences, FiniteSets, TLC

\* State of the class/design mapper calls
VARIABLES classes, call, ret

\* State of the canvas renderer (canvas-renderer.js, lines 10-23), the
\* children of its root element, the number of height timers it has pending
\* and the type of the message it posted last.
VARIABLES layers, selectedLayerId, editingLayerId, hoveredLayerId, editMode,
          currentBreakpoint, currentUIState, componentMap, editingComponentId,
          collectionItems, collectionFields,
          dom, heightTimers, posted

\* The messages other than height reports that the last step posted to the
\* host, the exception the last step's handler raised, the path of the
\* focused editor input in dom (document.activeElement; <<>> when no editor
\* input has the focus), and the paths of the editor inputs in dom whose
\* session a commit or a cancel has ended.
VARIABLES emitted, raised, activeElement, endedInputs

\* State of the host builder (YCodeBuilderMain.tsx) and of its three preview
\* iframes: the builder's iframeReady flag and the version of its layer
\* tree, per iframe whether its renderer script has run and the tree and
\* breakpoint that renderer holds, the number of READY messages on their way
\* to the builder and, per iframe, the messages on their way to its window.
VARIABLES iframeReady, builderLayers, iframes, toBuilder, toIframe

mapperVars == <<classes, call, ret>>

builderVars == <<iframeReady, builderLayers, iframes, toBuilder, toIframe>>

rendererVars ==
  <<layers, selectedLayerId, editingLayerId, hoveredLayerId, editMode,
    currentBreakpoint, currentUIState, componentMap, editingComponentId,
    collectionItems, collectionFields,
    dom, heightTimers, posted,
    emitted, raised, activeElement, endedInputs>>

vars == <<mapperVars, rendererVars, builderVars>>

(***************************************************************************)
(* String primitives (JavaScript String methods used by the source).       *)
(***************************************************************************)

\* The JavaScript null / undefined value of a string-typed slot.
NULL == "<null>"

\* JavaScript truthiness of a string-or-null value.
Truthy(v) == v # NULL /\ v # ""

\* Variant of Message that announces READY whatever the type.
ReadyMessage(type, layerId, text) == [type |-> "READY", layerId |-> layerId, text |-> text]

\* window.parent.postMessage({ type, payload }, '*'): the message, with the
\* fields of the payloads of the text-change messages.
Message(type, layerId, text) == [type |-> type, layerId |-> layerId, text |-> text]

\* The three preview surfaces of the builder.
Viewports == {"desktop", "tablet", "mobile"}

\* The builder as it is mounted: iframeReady false (line 1595), the first
\* version of a non-empty tree, the three iframes created and none of their
\* scripts run yet, no message under way.
BuilderMounted ==
  /\ iframeReady = FALSE
  /\ builderLayers = 1
  /\ iframes = [f \in Viewports |->
                  [loaded |-> FALSE, layers |-> 0, currentBreakpoint |-> "desktop"]]
  /\ toBuilder = 0
  /\ toIframe = [f \in Viewports |-> <<>>]

\* The renderer as the script leaves it once it has run: the state variables
\* at their initial values, an empty root element, READY posted.  The
\* builder around it is mounted.
RendererConstructed ==
  /\ BuilderMounted
  /\ layers = <<>>
  /\ selectedLayerId = NULL
  /\ editingLayerId = NULL
  /\ hoveredLayerId = NULL
  /\ editMode = TRUE
  /\ currentBreakpoint = "desktop"
  /\ currentUIState = "neutral"
  /\ componentMap = <<>>
  /\ editingComponentId = NULL
  /\ collectionItems = <<>>
  /\ collectionFields = <<>>
  /\ dom = <<>>
  /\ heightTimers = 0
  /\ posted = "READY"
  /\ emitted = <<Message("READY", NULL, NULL)>>
  /\ raised = NULL
  /\ activeElement = <<>>
  /\ endedInputs = {}

CharAt(s, i) == SubSeq(s, i, i)

StartsWith(s, p) == Len(s) >= Len(p) /\ SubSeq(s, 1, Len(p)) = p

EndsWith(s, p) == Len(s) >= Len(p) /\ SubSeq(s, Len(s) - Len(p) + 1, Len(s)) = p

\* s.slice(n)
Slice(s, n) == IF n >= Len(s) THEN "" ELSE SubSeq(s, n + 1, Len(s))

\* s.includes(sub)
Includes(s, sub) ==
  \E i \in 1..(Len(s) - Len(sub) + 1) : SubSeq(s, i, i + Len(sub) - 1) = sub

\* list.includes(x) for a JavaScript array given as a sequence
InList(x, list) == \E i \in 1..Len(list) : list[i] = x

Digit == {"0", "1", "2", "3", "4", "5", "6", "7", "8", "9"}

LowerAlpha == {"a", "b", "c", "d", "e", "f", "g", "h", "i", "j", "k", "l", "m",
               "n", "o", "p", "q", "r", "s", "t", "u", "v", "w", "x", "y", "z"}

UpperAlpha == {"A", "B", "C", "D", "E", "F", "G", "H", "I", "J", "K", "L", "M",
               "N", "O", "P", "Q", "R", "S", "T", "U", "V", "W", "X", "Y", "Z"}

\* [0-9A-Fa-f]
HexChar == Digit \cup {"a", "b", "c", "d", "e", "f", "A", "B", "C", "D", "E", "F"}

\* \w
WordChar == Digit \cup LowerAlpha \cup UpperAlpha \cup {"_"}

\* \s (the whitespace that can occur inside a class token)
Whitespace == {" "}

AllIn(s, set) == \A i \in 1..Len(s) : CharAt(s, i) \in set

\* \d+
IsDigits(s) == Len(s) >= 1 /\ AllIn(s, Digit)

\* \w+
IsWord(s) == Len(s) >= 1 /\ AllIn(s, WordChar)

\* [a-z]+
IsLower(s) == Len(s) >= 1 /\ AllIn(s, LowerAlpha)

LowerOf(c) ==
  CASE c = "A" -> "a" [] c = "B" -> "b" [] c = "C" -> "c" [] c = "D" -> "d"
    [] c = "E" -> "e" [] c = "F" -> "f" [] c = "G" -> "g" [] c = "H" -> "h"
    [] c = "I" -> "i" [] c = "J" -> "j" [] c = "K" -> "k" [] c = "L" -> "l"
    [] c = "M" -> "m" [] c = "N" -> "n" [] c = "O" -> "o" [] c = "P" -> "p"
    [] c = "Q" -> "q" [] c = "R" -> "r" [] c = "S" -> "s" [] c = "T" -> "t"
    [] c = "U" -> "u" [] c = "V" -> "v" [] c = "W" -> "w" [] c = "X" -> "x"
    [] c = "Y" -> "y" [] c = "Z" -> "z" [] OTHER -> c

RECURSIVE ToLowerCase(_)
ToLowerCase(s) ==
  IF Len(s) = 0 THEN "" ELSE LowerOf(CharAt(s, 1)) \o ToLowerCase(Slice(s, 1))

\* /^-?\d*\.?\d+$/
IsPlainNumber(s) ==
  LET body == IF StartsWith(s, "-") THEN Slice(s, 1) ELSE s
  IN  \/ IsDigits(body)
      \/ \E k \in 1..Len(body) :
            /\ CharAt(body, k) = "."
            /\ AllIn(SubSeq(body, 1, k - 1), Digit)
            /\ IsDigits(Slice(body, k))

SizeUnits == {"px", "rem", "em", "%", "vh", "vw", "vmin", "vmax",
              "ch", "ex", "cm", "mm", "in", "pt", "pc"}

\* /^-?\d*\.?\d+(px|rem|em|%|vh|vw|vmin|vmax|ch|ex|cm|mm|in|pt|pc)$/i
IsNumberWithUnit(s) ==
  \E u \in SizeUnits :
     /\ EndsWith(ToLowerCase(s), u)
     /\ IsPlainNumber(SubSeq(s, 1, Len(s) - Len(u)))

\* /^#?[0-9A-Fa-f]{n}$/
IsHex(s, n) ==
  LET body == IF StartsWith(s, "#") THEN Slice(s, 1) ELSE s
  IN  Len(body) = n /\ AllIn(body, HexChar)

RECURSIVE SkipSpaces(_)
SkipSpaces(s) ==
  IF Len(s) > 0 /\ CharAt(s, 1) \in Whitespace THEN SkipSpaces(Slice(s, 1)) ELSE s

\* /^<name>a?\s*\(/i  for name = rgb, hsl
IsColorFunction(s, name) ==
  LET low  == ToLowerCase(s)
      rest == Slice(low, Len(name))
      noA  == IF StartsWith(rest, "a") THEN Slice(rest, 1) ELSE rest
  IN  /\ StartsWith(low, name)
      /\ \/ StartsWith(SkipSpaces(noA), "(")
         \/ StartsWith(SkipSpaces(rest), "(")

colorKeywords ==
  <<"transparent", "currentcolor", "inherit",
    "black", "white", "red", "green", "blue",
    "yellow", "purple", "pink", "gray", "grey", "orange", "cyan", "magenta",
    "indigo", "violet", "brown", "lime", "teal", "navy", "maroon", "olive">>

isColorValue(value) ==
  IF IsHex(value, 3) THEN TRUE
  ELSE IF IsHex(value, 6) THEN TRUE
  ELSE IF IsHex(value, 8) THEN TRUE
  ELSE IF IsColorFunction(value, "rgb") THEN TRUE
  ELSE IF IsColorFunction(value, "hsl") THEN TRUE
  ELSE IF InList(ToLowerCase(value), colorKeywords) THEN TRUE
  ELSE IF IsNumberWithUnit(value) THEN FALSE
  ELSE IF IsPlainNumber(value) THEN FALSE
  ELSE FALSE

isImageValue(value) ==
  IF \/ StartsWith(value, "url(")
     \/ Includes(value, "http://")
     \/ Includes(value, "https://")
     \/ Includes(value, "data:")
  THEN TRUE
  ELSE IF \/ Includes(value, "gradient(")
          \/ Includes(value, "linear-gradient")
          \/ Includes(value, "radial-gradient")
          \/ Includes(value, "conic-gradient")
  THEN TRUE
  ELSE IF isColorValue(value) THEN FALSE
  ELSE FALSE

\* className.match(/\[([^\]]+)\]/): the text between the first "[" that is
\* followed by at least one character other than "]" and the next "]".
extractArbitraryValue(className) ==
  LET n == Len(className)
      Close(i) == {j \in (i + 1)..n : CharAt(className, j) = "]"}
      FirstClose(i) == CHOOSE j \in Close(i) : \A k \in Close(i) : j <= k
      Opens == {i \in 1..n : /\ CharAt(className, i) = "["
                             /\ Close(i) # {}
                             /\ FirstClose(i) >= i + 2}
      open == CHOOSE i \in Opens : \A k \in Opens : i <= k
  IN  IF Opens = {} THEN NULL
      ELSE SubSeq(className, open + 1, FirstClose(open) - 1)


(***************************************************************************)
(* CLASS_PROPERTY_MAP: one matcher per regular expression of the table.    *)
(***************************************************************************)

\* cls = prefix followed by a remainder satisfying P
Rx(cls, prefix, P(_)) == StartsWith(cls, prefix) /\ P(Slice(cls, Len(prefix)))

\* \[.+\]  (anchored at both ends of the remainder)
Arb(r) == Len(r) >= 3 /\ CharAt(r, 1) = "[" /\ CharAt(r, Len(r)) = "]"

\* (\[.+\]|\d+|px|0\.5|1\.5|2\.5|3\.5)
ScaleValue(r) == Arb(r) \/ IsDigits(r) \/ r \in {"px", "0.5", "1.5", "2.5", "3.5"}

\* (\[.+\]|\d+|px|auto|0\.5|1\.5|2\.5|3\.5)
ScaleOrAuto(r) == ScaleValue(r) \/ r = "auto"

\* (\[.+\]|\d+|none|subgrid)
GridValue(r) == Arb(r) \/ IsDigits(r) \/ r \in {"none", "subgrid"}

\* \d+\/\d+
IsFraction(r) ==
  \E k \in 1..Len(r) :
     CharAt(r, k) = "/" /\ IsDigits(SubSeq(r, 1, k - 1)) /\ IsDigits(Slice(r, k))

\* (\[.+\]|\d+\/\d+|\d+|px|auto|full|screen|min|max|fit)
SizeValue(r) ==
  \/ Arb(r) \/ IsFraction(r) \/ IsDigits(r)
  \/ r \in {"px", "auto", "full", "screen", "min", "max", "fit"}

\* (\[.+\]|\d+|px|full|min|max|fit)
MinWidthValue(r) == Arb(r) \/ IsDigits(r) \/ r \in {"px", "full", "min", "max", "fit"}

\* (\[.+\]|\d+|px|full|screen|min|max|fit)
MinHeightValue(r) ==
  Arb(r) \/ IsDigits(r) \/ r \in {"px", "full", "screen", "min", "max", "fit"}

MaxWidthValue(r) ==
  \/ Arb(r)
  \/ r \in {"none", "xs", "sm", "md", "lg", "xl", "2xl", "3xl", "4xl", "5xl",
            "6xl", "7xl", "full", "min", "max", "fit", "prose", "screen-sm",
            "screen-md", "screen-lg", "screen-xl", "screen-2xl"}

TextAlignWords == {"left", "center", "right", "justify", "start", "end"}

FontSizeWords == {"xs", "sm", "base", "lg", "xl", "2xl", "3xl", "4xl", "5xl",
                  "6xl", "7xl", "8xl", "9xl"}

\* (?!(?:w1|w2|...)(?:\s|$)).+  : a non-empty remainder that does not begin
\* with one of the words followed by whitespace or the end of the string
NotWordThenAny(r, words) ==
  /\ Len(r) >= 1
  /\ ~ \E w \in words :
         /\ StartsWith(r, w)
         /\ (Len(r) = Len(w) \/ CharAt(r, Len(w) + 1) \in Whitespace)

\* ((\w+)(-\d+)?|\[.+\])
WordOrArb(r) ==
  \/ IsWord(r)
  \/ \E k \in 1..Len(r) :
        CharAt(r, k) = "-" /\ IsWord(SubSeq(r, 1, k - 1)) /\ IsDigits(Slice(r, k))
  \/ Arb(r)

BgReserved ==
  {"auto", "cover", "contain", "bottom", "center", "left", "left-bottom",
   "left-top", "right", "right-bottom", "right-top", "top", "repeat",
   "no-repeat", "repeat-x", "repeat-y", "repeat-round", "repeat-space", "none",
   "gradient-to-t", "gradient-to-tr", "gradient-to-r", "gradient-to-br",
   "gradient-to-b", "gradient-to-bl", "gradient-to-l", "gradient-to-tl"}

BgColorValue(r) == r \notin BgReserved /\ WordOrArb(r)

BgSizeValue(r) == r \in {"auto", "cover", "contain"} \/ Arb(r)

BgPositionValue(r) ==
  \/ r \in {"bottom", "center", "left", "left-bottom", "left-top", "right",
            "right-bottom", "right-top", "top"}
  \/ Arb(r)

BgRepeatValue(r) ==
  r \in {"repeat", "no-repeat", "repeat-x", "repeat-y", "repeat-round", "repeat-space"}

BgImageValue(r) ==
  \/ r \in {"none", "gradient-to-t", "gradient-to-tr", "gradient-to-r",
            "gradient-to-br", "gradient-to-b", "gradient-to-bl", "gradient-to-l",
            "gradient-to-tl"}
  \/ Arb(r)

BorderStyles == {"solid", "dashed", "dotted", "double", "hidden", "none"}

\* ^border-(?!(?:styles)$)(?!t-|r-|b-|l-|x-|y-)((\w+)(-\d+)?|\[.+\])$
BorderColorValue(r) ==
  /\ r \notin BorderStyles
  /\ ~ \E side \in {"t-", "r-", "b-", "l-", "x-", "y-"} : StartsWith(r, side)
  /\ WordOrArb(r)

\* ^<base>(-\d+|-\[.+\])?$
WidthOf(cls, base) ==
  cls = base \/ (StartsWith(cls, base \o "-") /\
                 LET r == Slice(cls, Len(base) + 1) IN IsDigits(r) \/ Arb(r))

\* ^<base>(-none|-sm|-md|-lg|-xl|-2xl|-3xl|-full|-\[.+\])?$
RadiusOf(cls, base) ==
  cls = base \/ (StartsWith(cls, base \o "-") /\
                 LET r == Slice(cls, Len(base) + 1)
                 IN  r \in {"none", "sm", "md", "lg", "xl", "2xl", "3xl", "full"} \/ Arb(r))

FontFamilyValue(r) == r \in {"sans", "serif", "mono"} \/ Arb(r)

FontWeightValue(r) ==
  \/ r \in {"thin", "extralight", "light", "normal", "medium", "semibold",
            "bold", "extrabold", "black"}
  \/ Arb(r)

LineHeightValue(r) ==
  \/ r \in {"none", "tight", "snug", "normal", "relaxed", "loose"}
  \/ IsDigits(r) \/ Arb(r)

LetterSpacingValue(r) ==
  r \in {"tighter", "tight", "normal", "wide", "wider", "widest"} \/ Arb(r)

FontSizeValue(r) == NotWordThenAny(r, TextAlignWords)

ColorValue(r) == NotWordThenAny(r, FontSizeWords \cup TextAlignWords)

TextAlignValue(r) == r \in TextAlignWords

FlexDirectionValue(r) == r \in {"row", "row-reverse", "col", "col-reverse"}

FlexWrapValue(r) == r \in {"wrap", "wrap-reverse", "nowrap"}

JustifyValue(r) ==
  r \in {"start", "end", "center", "between", "around", "evenly", "stretch"}

AlignItemsValue(r) == r \in {"start", "end", "center", "baseline", "stretch"}

BorderStyleValue(r) == r \in BorderStyles

OpacityValue(r) == IsDigits(r) \/ Arb(r)

ZIndexValue(r) == Arb(r) \/ IsDigits(r) \/ r = "auto"

\* The keys of CLASS_PROPERTY_MAP, in the order Object.entries yields them.
PropertyOrder ==
  <<"display", "flexDirection", "flexWrap", "justifyContent", "alignItems",
    "alignContent", "gap", "columnGap", "rowGap", "gridTemplateColumns",
    "gridTemplateRows",
    "padding", "paddingTop", "paddingRight", "paddingBottom", "paddingLeft",
    "margin", "marginTop", "marginRight", "marginBottom", "marginLeft",
    "width", "height", "minWidth", "minHeight", "maxWidth", "maxHeight",
    "fontFamily", "fontSize", "fontWeight", "lineHeight", "letterSpacing",
    "textAlign", "textTransform", "textDecoration", "color",
    "backgroundColor", "backgroundSize", "backgroundPosition",
    "backgroundRepeat", "backgroundImage",
    "borderWidth", "borderTopWidth", "borderRightWidth", "borderBottomWidth",
    "borderLeftWidth", "borderStyle", "borderColor", "borderRadius",
    "borderTopLeftRadius", "borderTopRightRadius", "borderBottomRightRadius",
    "borderBottomLeftRadius",
    "opacity", "boxShadow",
    "position", "top", "right", "bottom", "left", "zIndex">>

KnownProperties == {PropertyOrder[i] : i \in 1..Len(PropertyOrder)}

\* CLASS_PROPERTY_MAP[property].test(cls)
PatternTest(property, cls) ==
  CASE property = "display" ->
         cls \in {"block", "inline-block", "inline", "flex", "inline-flex",
                  "grid", "inline-grid", "hidden"}
    [] property = "flexDirection"  -> Rx(cls, "flex-", FlexDirectionValue)
    [] property = "flexWrap"       -> Rx(cls, "flex-", FlexWrapValue)
    [] property = "justifyContent" -> Rx(cls, "justify-", JustifyValue)
    [] property = "alignItems"     -> Rx(cls, "items-", AlignItemsValue)
    [] property = "alignContent"   -> Rx(cls, "content-", JustifyValue)
    [] property = "gap"            -> Rx(cls, "gap-", ScaleValue)
    [] property = "columnGap"      -> Rx(cls, "gap-x-", ScaleValue)
    [] property = "rowGap"         -> Rx(cls, "gap-y-", ScaleValue)
    [] property = "gridTemplateColumns" -> Rx(cls, "grid-cols-", GridValue)
    [] property = "gridTemplateRows"    -> Rx(cls, "grid-rows-", GridValue)
    [] property = "padding"       -> Rx(cls, "p-", ScaleValue)
    [] property = "paddingTop"    -> Rx(cls, "pt-", ScaleValue)
    [] property = "paddingRight"  -> Rx(cls, "pr-", ScaleValue)
    [] property = "paddingBottom" -> Rx(cls, "pb-", ScaleValue)
    [] property = "paddingLeft"   -> Rx(cls, "pl-", ScaleValue)
    [] property = "margin"        -> Rx(cls, "m-", ScaleOrAuto)
    [] property = "marginTop"     -> Rx(cls, "mt-", ScaleOrAuto)
    [] property = "marginRight"   -> Rx(cls, "mr-", ScaleOrAuto)
    [] property = "marginBottom"  -> Rx(cls, "mb-", ScaleOrAuto)
    [] property = "marginLeft"    -> Rx(cls, "ml-", ScaleOrAuto)
    [] property = "width"     -> Rx(cls, "w-", SizeValue)
    [] property = "height"    -> Rx(cls, "h-", SizeValue)
    [] property = "minWidth"  -> Rx(cls, "min-w-", MinWidthValue)
    [] property = "minHeight" -> Rx(cls, "min-h-", MinHeightValue)
    [] property = "maxWidth"  -> Rx(cls, "max-w-", MaxWidthValue)
    [] property = "maxHeight" -> Rx(cls, "max-h-", MinHeightValue)
    [] property = "fontFamily"    -> Rx(cls, "font-", FontFamilyValue)
    [] property = "fontSize"      -> Rx(cls, "text-", FontSizeValue)
    [] property = "fontWeight"    -> Rx(cls, "font-", FontWeightValue)
    [] property = "lineHeight"    -> Rx(cls, "leading-", LineHeightValue)
    [] property = "letterSpacing" -> Rx(cls, "tracking-", LetterSpacingValue)
    [] property = "textAlign"     -> Rx(cls, "text-", TextAlignValue)
    [] property = "textTransform" ->
         cls \in {"uppercase", "lowercase", "capitalize", "normal-case"}
    [] property = "textDecoration" ->
         cls \in {"underline", "overline", "line-through", "no-underline"}
    [] property = "color" -> Rx(cls, "text-", ColorValue)
    [] property = "backgroundColor"    -> Rx(cls, "bg-", BgColorValue)
    [] property = "backgroundSize"     -> Rx(cls, "bg-", BgSizeValue)
    [] property = "backgroundPosition" -> Rx(cls, "bg-", BgPositionValue)
    [] property = "backgroundRepeat"   -> Rx(cls, "bg-", BgRepeatValue)
    [] property = "backgroundImage"    -> Rx(cls, "bg-", BgImageValue)
    [] property = "borderWidth"       -> WidthOf(cls, "border")
    [] property = "borderTopWidth"    -> WidthOf(cls, "border-t")
    [] property = "borderRightWidth"  -> WidthOf(cls, "border-r")
    [] property = "borderBottomWidth" -> WidthOf(cls, "border-b")
    [] property = "borderLeftWidth"   -> WidthOf(cls, "border-l")
    [] property = "borderStyle" -> Rx(cls, "border-", BorderStyleValue)
    [] property = "borderColor" -> Rx(cls, "border-", BorderColorValue)
    [] property = "borderRadius"            -> RadiusOf(cls, "rounded")
    [] property = "borderTopLeftRadius"     -> RadiusOf(cls, "rounded-tl")
    [] property = "borderTopRightRadius"    -> RadiusOf(cls, "rounded-tr")
    [] property = "borderBottomRightRadius" -> RadiusOf(cls, "rounded-br")
    [] property = "borderBottomLeftRadius"  -> RadiusOf(cls, "rounded-bl")
    [] property = "opacity" -> Rx(cls, "opacity-", OpacityValue)
    [] property = "boxShadow" ->
         cls = "shadow" \/ (StartsWith(cls, "shadow-") /\
           LET r == Slice(cls, 7)
           IN  r \in {"none", "sm", "md", "lg", "xl", "2xl", "inner"} \/ Arb(r))
    [] property = "position" ->
         cls \in {"static", "fixed", "absolute", "relative", "sticky"}
    [] property = "top"    -> Rx(cls, "top-", ScaleOrAuto)
    [] property = "right"  -> Rx(cls, "right-", ScaleOrAuto)
    [] property = "bottom" -> Rx(cls, "bottom-", ScaleOrAuto)
    [] property = "left"   -> Rx(cls, "left-", ScaleOrAuto)
    [] property = "zIndex" -> Rx(cls, "z-", ZIndexValue)
    [] OTHER -> FALSE

\* Names every object literal inherits from Object.prototype (a sample).
ObjectPrototypeNames ==
  {"constructor", "toString", "valueOf", "hasOwnProperty", "__proto__"}

\* CLASS_PROPERTY_MAP[property] || null.  The registry is an object literal:
\* the lookup finds the RegExp of an own key, and for a name of
\* Object.prototype the inherited member, which is truthy and no RegExp.
LookupPattern(property) ==
  IF property \in KnownProperties THEN "RegExp"
  ELSE IF property \in ObjectPrototypeNames THEN "Object.prototype member"
  ELSE NULL

\* getConflictingClassPattern(property) is non-null
getConflictingClassPattern(property) == LookupPattern(property) # NULL

\* pattern.test is a function.  PatternTest is the result of the call when
\* it is; the call raises a TypeError when it is not.
IsRegExp(property) == LookupPattern(property) = "RegExp"


(***************************************************************************)
(* ConflictResolver                                                        *)
(***************************************************************************)

\* Variant of KeepsClass without the text-[..] / bg-[..] disambiguation.
KeepsClassByPatternOnly(cls, property) == ~PatternTest(property, cls)

\* The filter callback of removeConflictingClasses: TRUE keeps cls.
KeepsClass(cls, property) ==
  LET value == extractArbitraryValue(cls)
  IN  IF ~PatternTest(property, cls) THEN TRUE
      ELSE IF /\ StartsWith(cls, "text-[")
              /\ Truthy(value)
              /\ \/ (property = "fontSize" /\ isColorValue(value))
                 \/ (property = "color" /\ ~isColorValue(value))
      THEN TRUE
      ELSE IF /\ StartsWith(cls, "bg-[")
              /\ Truthy(value)
              /\ \/ (property = "backgroundColor" /\ isImageValue(value))
                 \/ (property = "backgroundImage" /\ ~isImageValue(value))
      THEN TRUE
      ELSE FALSE

\* Variant of removeConflictingClasses that drops only the first conflicting class.
removeFirstConflictingClass(cs, property) ==
  LET hits == {i \in 1..Len(cs) : ~KeepsClass(cs[i], property)}
      first == CHOOSE i \in hits : \A j \in hits : i <= j
  IN  IF ~getConflictingClassPattern(property) \/ hits = {} THEN cs
      ELSE SubSeq(cs, 1, first - 1) \o SubSeq(cs, first + 1, Len(cs))

removeConflictingClasses(cs, property) ==
  IF ~getConflictingClassPattern(property) THEN cs
  ELSE SelectSeq(cs, LAMBDA cls : KeepsClass(cls, property))

replaceConflictingClasses(existingClasses, property, newClass) ==
  LET filtered == removeConflictingClasses(existingClasses, property)
  IN  IF Truthy(newClass) THEN Append(filtered, newClass) ELSE filtered

getAffectedProperties(className) ==
  LET value == extractArbitraryValue(className)
  IN  IF StartsWith(className, "text-[") /\ Truthy(value)
      THEN IF isColorValue(value) THEN <<"color">> ELSE <<"fontSize">>
      ELSE IF StartsWith(className, "bg-[") /\ Truthy(value)
      THEN IF isImageValue(value) THEN <<"backgroundImage">> ELSE <<"backgroundColor">>
      ELSE SelectSeq(PropertyOrder, LAMBDA property : PatternTest(property, className))

RECURSIVE RemoveEach(_, _)
\* affectedProperties.forEach(property => result = removeConflictingClasses(result, property))
RemoveEach(result, properties) ==
  IF properties = <<>> THEN result
  ELSE RemoveEach(removeConflictingClasses(result, Head(properties)), Tail(properties))

removeConflictsForClass(existingClasses, newClass) ==
  RemoveEach(existingClasses, getAffectedProperties(newClass))

(***************************************************************************)
(* Inputs                                                                  *)
(***************************************************************************)

\* Longest class list given to a mapper function.
MaxClasses == 2

RECURSIVE ListsUpTo(_, _)
ListsUpTo(S, n) ==
  IF n = 0 THEN {<<>>}
  ELSE LET shorter == ListsUpTo(S, n - 1)
       IN  shorter \cup {Append(l, x) : l \in shorter, x \in S}

Range(seq) == {seq[i] : i \in 1..Len(seq)}

\* No mapper function has been called on the class list yet.
NoCall == [fn |-> "none"]

\* Base tokens of the overloaded text-/bg- families and some unrelated ones.
ConflictTokens ==
  {"text-[1.5rem]", "text-[#ff0000]", "text-[red]", "text-lg", "text-red-500",
   "text-center", "bg-[#ff0000]", "bg-[url(a.png)]", "bg-cover", "bg-red-500",
   "w-[100px]", "flex"}

ConflictProperties ==
  {"fontSize", "color", "textAlign", "backgroundColor", "backgroundImage",
   "backgroundSize", "width", "display", "rotate"}

InitConflict ==
  /\ RendererConstructed
  /\ classes \in ListsUpTo(ConflictTokens, MaxClasses)
  /\ call = NoCall
  /\ ret = <<>>

CallRemoveConflictingClasses ==
  \E property \in ConflictProperties :
     /\ call = NoCall
     /\ call' = [fn |-> "removeConflictingClasses", property |-> property]
     /\ ret' = removeConflictingClasses(classes, property)
     /\ UNCHANGED <<classes, rendererVars, builderVars>>

CallGetAffectedProperties ==
  \E cls \in ConflictTokens :
     /\ call = NoCall
     /\ call' = [fn |-> "getAffectedProperties", className |-> cls]
     /\ ret' = getAffectedProperties(cls)
     /\ UNCHANGED <<classes, rendererVars, builderVars>>

CallRemoveConflictsForClass ==
  \E newClass \in ConflictTokens :
     /\ call = NoCall
     /\ call' = [fn |-> "removeConflictsForClass", newClass |-> newClass]
     /\ ret' = removeConflictsForClass(classes, newClass)
     /\ UNCHANGED <<classes, rendererVars, builderVars>>

NextConflict ==
  \/ CallRemoveConflictingClasses
  \/ CallGetAffectedProperties
  \/ CallRemoveConflictsForClass

SpecConflict == InitConflict /\ [][NextConflict]_vars


(***************************************************************************)
(* BreakpointStateCodec                                                    *)
(***************************************************************************)

Breakpoints == {"mobile", "tablet", "desktop"}

UIStates == {"neutral", "hover", "focus", "active", "disabled", "current"}

\* BREAKPOINT_CONFIG[breakpoint].prefix
getBreakpointPrefix(breakpoint) ==
  CASE breakpoint = "mobile"  -> ""
    [] breakpoint = "tablet"  -> "md:"
    [] breakpoint = "desktop" -> "lg:"

\* UI_STATE_CONFIG[state].prefix
getUIStatePrefix(state) ==
  CASE state = "neutral"  -> ""
    [] state = "hover"    -> "hover:"
    [] state = "focus"    -> "focus:"
    [] state = "active"   -> "active:"
    [] state = "disabled" -> "disabled:"
    [] state = "current"  -> "visited:"

parseFullClass(className) ==
  LET bp == IF StartsWith(className, "max-md:")
              THEN [breakpoint |-> "mobile", remaining |-> Slice(className, 7)]
            ELSE IF StartsWith(className, "max-lg:")
              THEN [breakpoint |-> "tablet", remaining |-> Slice(className, 7)]
            ELSE IF StartsWith(className, "lg:")
              THEN [breakpoint |-> "desktop", remaining |-> Slice(className, 3)]
            ELSE IF StartsWith(className, "md:")
              THEN [breakpoint |-> "tablet", remaining |-> Slice(className, 3)]
            ELSE [breakpoint |-> "desktop", remaining |-> className]
      r  == bp.remaining
      st == IF StartsWith(r, "hover:")
              THEN [uiState |-> "hover", remaining |-> Slice(r, 6)]
            ELSE IF StartsWith(r, "focus:")
              THEN [uiState |-> "focus", remaining |-> Slice(r, 6)]
            ELSE IF StartsWith(r, "active:")
              THEN [uiState |-> "active", remaining |-> Slice(r, 7)]
            ELSE IF StartsWith(r, "disabled:")
              THEN [uiState |-> "disabled", remaining |-> Slice(r, 9)]
            ELSE IF StartsWith(r, "visited:")
              THEN [uiState |-> "current", remaining |-> Slice(r, 8)]
            ELSE [uiState |-> "neutral", remaining |-> r]
  IN  [breakpoint |-> bp.breakpoint, uiState |-> st.uiState, baseClass |-> st.remaining]

parseBreakpointClass(className) ==
  IF StartsWith(className, "max-md:")
    THEN [breakpoint |-> "mobile", baseClass |-> Slice(className, 7)]
  ELSE IF StartsWith(className, "max-lg:")
    THEN [breakpoint |-> "tablet", baseClass |-> Slice(className, 7)]
  ELSE IF StartsWith(className, "lg:")
    THEN [breakpoint |-> "desktop", baseClass |-> Slice(className, 3)]
  ELSE IF StartsWith(className, "md:")
    THEN [breakpoint |-> "tablet", baseClass |-> Slice(className, 3)]
  ELSE [breakpoint |-> "desktop", baseClass |-> className]

addBreakpointPrefix(breakpoint, className) ==
  LET prefix == getBreakpointPrefix(breakpoint)
  IN  IF prefix # "" THEN prefix \o className ELSE className

\* pattern.test(className) followed by the text-[..] / bg-[..] disambiguation
shouldIncludeClassForProperty(className, property) ==
  LET value == extractArbitraryValue(className)
  IN  IF ~PatternTest(property, className) THEN FALSE
      ELSE IF /\ StartsWith(className, "text-[")
              /\ Truthy(value)
              /\ \/ (property = "fontSize" /\ isColorValue(value))
                 \/ (property = "color" /\ ~isColorValue(value))
      THEN FALSE
      ELSE IF /\ StartsWith(className, "bg-[")
              /\ Truthy(value)
              /\ \/ (property = "backgroundColor" /\ isImageValue(value))
                 \/ (property = "backgroundImage" /\ ~isImageValue(value))
      THEN FALSE
      ELSE TRUE

\* /^(hover|focus|active|disabled|visited):/
HasStatePrefix(s) ==
  \E m \in {"hover:", "focus:", "active:", "disabled:", "visited:"} : StartsWith(s, m)

\* /^(max-lg|max-md|hover|focus|active|disabled|visited):/
HasDesktopFirstOrStatePrefix(s) ==
  StartsWith(s, "max-lg:") \/ StartsWith(s, "max-md:") \/ HasStatePrefix(s)

\* array.find(P): the first element satisfying P, or NULL (undefined)
Find(cs, P(_)) ==
  LET hits == {i \in 1..Len(cs) : P(cs[i])}
  IN  IF hits = {} THEN NULL
      ELSE cs[CHOOSE i \in hits : \A j \in hits : i <= j]

NoValue == [value |-> NULL, source |-> NULL]

\* One iteration of the loop of getInheritedValue; last = (lastValue, lastSource).
InheritedAt(cs, property, breakpoint, uiState, last) ==
  LET bpPrefix    == getBreakpointPrefix(breakpoint)
      statePrefix == getUIStatePrefix(uiState)
      fullPrefix  == bpPrefix \o statePrefix
      IsStateClass(cls) ==
        /\ IF bpPrefix # "" THEN StartsWith(cls, fullPrefix)
                            ELSE StartsWith(cls, statePrefix)
        /\ shouldIncludeClassForProperty(Slice(cls, Len(fullPrefix)), property)
      stateClass ==
        IF uiState # "neutral" THEN Find(cs, IsStateClass) ELSE NULL
      afterState ==
        IF Truthy(stateClass)
        THEN [value |-> Slice(stateClass, Len(fullPrefix)), source |-> breakpoint]
        ELSE last
      IsNeutralClass(cls) ==
        IF bpPrefix # ""
        THEN /\ StartsWith(cls, bpPrefix)
             /\ ~HasStatePrefix(Slice(cls, Len(bpPrefix)))
             /\ shouldIncludeClassForProperty(Slice(cls, Len(bpPrefix)), property)
        ELSE /\ ~HasDesktopFirstOrStatePrefix(cls)
             /\ shouldIncludeClassForProperty(cls, property)
      neutralClass == Find(cs, IsNeutralClass)
      baseClass ==
        IF bpPrefix # "" THEN Slice(neutralClass, Len(bpPrefix)) ELSE neutralClass
  IN  IF ~Truthy(neutralClass) THEN afterState
      ELSE IF uiState = "neutral"
           THEN [value |-> baseClass, source |-> breakpoint]
      ELSE IF ~Truthy(afterState.value)
           THEN [value |-> baseClass, source |-> breakpoint]
      ELSE afterState

inheritanceChain(atBreakpoint) ==
  IF atBreakpoint = "mobile" THEN <<"desktop", "tablet", "mobile">>
  ELSE IF atBreakpoint = "tablet" THEN <<"desktop", "tablet">>
  ELSE <<"desktop">>

RECURSIVE InheritAlong(_, _, _, _, _)
InheritAlong(cs, property, chain, uiState, last) ==
  IF chain = <<>> THEN last
  ELSE InheritAlong(cs, property, Tail(chain), uiState,
                    InheritedAt(cs, property, Head(chain), uiState, last))

getInheritedValue(cs, property, atBreakpoint, uiState) ==
  IF ~getConflictingClassPattern(property) THEN NoValue
  ELSE InheritAlong(cs, property, inheritanceChain(atBreakpoint),
                    uiState, NoValue)

\* Variant of KeepsOnSet that compares the breakpoint only, not the UI state.
KeepsOnSetAnyState(cls, property, breakpoint, uiState) ==
  LET parsed == parseBreakpointClass(cls)
      base   == parseFullClass(cls).baseClass
  IN  IF parsed.breakpoint # breakpoint THEN TRUE
      ELSE ~shouldIncludeClassForProperty(base, property)

\* The filter callback of setBreakpointClass: TRUE keeps cls.
KeepsOnSet(cls, property, breakpoint, uiState) ==
  LET parsed == parseFullClass(cls)
  IN  IF parsed.breakpoint # breakpoint \/ parsed.uiState # uiState THEN TRUE
      ELSE ~shouldIncludeClassForProperty(parsed.baseClass, property)

setBreakpointClass(cs, property, newClass, breakpoint, uiState) ==
  IF ~getConflictingClassPattern(property) THEN cs
  ELSE LET fullPrefix == getBreakpointPrefix(breakpoint) \o getUIStatePrefix(uiState)
           newClasses == SelectSeq(cs, LAMBDA cls :
                                     KeepsOnSet(cls, property, breakpoint, uiState))
       IN  IF Truthy(newClass) THEN Append(newClasses, fullPrefix \o newClass)
           ELSE newClasses

removeConflictingClassesForBreakpoint(cs, property, breakpoint) ==
  IF ~getConflictingClassPattern(property) THEN cs
  ELSE SelectSeq(cs, LAMBDA cls :
         LET parsed == parseBreakpointClass(cls)
         IN  IF parsed.breakpoint = breakpoint
             THEN ~shouldIncludeClassForProperty(parsed.baseClass, property)
             ELSE TRUE)

\* Prefixed tokens of the width, background-colour and text families.
BreakpointTokens ==
  {"w-[100px]", "max-lg:w-[50px]", "max-md:w-[20px]", "md:w-[30px]",
   "hover:w-[70px]", "max-lg:hover:w-[60px]",
   "bg-red-500", "hover:bg-blue-500",
   "text-[#ff0000]", "text-[1.5rem]"}

BreakpointProperties == {"width", "backgroundColor", "fontSize", "rotate"}

BreakpointStates == {"neutral", "hover", "current"}

NewClasses == {NULL, "w-[9px]", "text-[2rem]"}

InitBreakpoint ==
  /\ RendererConstructed
  /\ classes \in ListsUpTo(BreakpointTokens, MaxClasses)
  /\ call = NoCall
  /\ ret = <<>>

CallGetInheritedValue ==
  \E property \in BreakpointProperties, breakpoint \in Breakpoints,
     uiState \in BreakpointStates :
     /\ call = NoCall
     /\ call' = [fn |-> "getInheritedValue", property |-> property,
                 breakpoint |-> breakpoint, uiState |-> uiState]
     /\ ret' = getInheritedValue(classes, property, breakpoint, uiState)
     /\ UNCHANGED <<classes, rendererVars, builderVars>>

CallSetBreakpointClass ==
  \E property \in BreakpointProperties, newClass \in NewClasses,
     breakpoint \in Breakpoints, uiState \in BreakpointStates :
     /\ call = NoCall
     /\ call' = [fn |-> "setBreakpointClass", property |-> property,
                 newClass |-> newClass, breakpoint |-> breakpoint,
                 uiState |-> uiState]
     /\ ret' = setBreakpointClass(classes, property, newClass, breakpoint, uiState)
     /\ UNCHANGED <<classes, rendererVars, builderVars>>

NextBreakpoint ==
  \/ CallGetInheritedValue
  \/ CallSetBreakpointClass

SpecBreakpoint == InitBreakpoint /\ [][NextBreakpoint]_vars


(***************************************************************************)
(* Properties of the ConflictResolver (checked under SpecConflict)         *)
(***************************************************************************)

Count(seq, x) == Cardinality({i \in 1..Len(seq) : seq[i] = x})

\* cls has the shape <prefix>[v] with a non-empty v free of brackets
IsBracketToken(cls, prefix) ==
  /\ StartsWith(cls, prefix \o "[")
  /\ EndsWith(cls, "]")
  /\ Len(cls) >= Len(prefix) + 3
  /\ \A i \in (Len(prefix) + 2)..(Len(cls) - 1) : CharAt(cls, i) \notin {"[", "]"}

BracketValue(cls, prefix) == SubSeq(cls, Len(prefix) + 2, Len(cls) - 1)

\* The heuristic assigns the bracket token cls to the other member of the
\* overloaded pair that property belongs to.
BelongsToOtherMember(cls, property) ==
  \/ /\ IsBracketToken(cls, "text-")
     /\ \/ property = "fontSize" /\ isColorValue(BracketValue(cls, "text-"))
        \/ property = "color" /\ ~isColorValue(BracketValue(cls, "text-"))
  \/ /\ IsBracketToken(cls, "bg-")
     /\ \/ property = "backgroundColor" /\ isImageValue(BracketValue(cls, "bg-"))
        \/ property = "backgroundImage" /\ ~isImageValue(BracketValue(cls, "bg-"))

BelongsToRequested(cls, property) ==
  \/ /\ IsBracketToken(cls, "text-")
     /\ \/ property = "fontSize" /\ ~isColorValue(BracketValue(cls, "text-"))
        \/ property = "color" /\ isColorValue(BracketValue(cls, "text-"))
  \/ /\ IsBracketToken(cls, "bg-")
     /\ \/ property = "backgroundColor" /\ ~isImageValue(BracketValue(cls, "bg-"))
        \/ property = "backgroundImage" /\ isImageValue(BracketValue(cls, "bg-"))

\* C1: removeConflictingClasses keeps every text-[v] / bg-[v] token that the
\* value heuristic assigns to the other member of the overloaded pair
\* (fontSize/color, backgroundColor/backgroundImage) and removes the bracket
\* token that belongs to the requested property.
C1_OverloadSafety ==
  call.fn = "removeConflictingClasses" =>
    \A cls \in Range(classes) :
       /\ BelongsToOtherMember(cls, call.property) =>
            Count(ret, cls) = Count(classes, cls)
       /\ BelongsToRequested(cls, call.property) => Count(ret, cls) = 0

C1_Witness ==
  /\ call.fn = "removeConflictingClasses"
  /\ call.property = "fontSize"
  /\ classes = <<"text-[1.5rem]", "text-[#ff0000]">>
  /\ ret = <<"text-[#ff0000]">>

\* C5: removeConflictsForClass is idempotent: applying it again with the same
\* new token to its own result changes nothing.
C5_Idempotent ==
  call.fn = "removeConflictsForClass" =>
    removeConflictsForClass(ret, call.newClass) = ret

C5_Witness ==
  /\ call.fn = "removeConflictsForClass"
  /\ Len(classes) = 2
  /\ Len(ret) = 1

\* C7: removeConflictsForClass removes an existing token only if that token
\* affects a property that the new token also affects (getAffectedProperties).
C7_RemovesOnlyRelated ==
  call.fn = "removeConflictsForClass" =>
    \A cls \in Range(classes) :
       Count(ret, cls) < Count(classes, cls) =>
         Range(getAffectedProperties(cls))
           \cap Range(getAffectedProperties(call.newClass)) # {}

(***************************************************************************)
(* Properties of the BreakpointStateCodec (checked under SpecBreakpoint)   *)
(***************************************************************************)

\* Positions of the tokens of cs that the desktop-first prefix grammar
\* (no prefix, max-lg:, max-md:) places at (breakpoint, uiState) and that
\* implement property.
TokensAt(cs, property, breakpoint, uiState) ==
  {i \in 1..Len(cs) :
     LET parsed == parseFullClass(cs[i])
     IN  /\ ~StartsWith(cs[i], "md:")
         /\ ~StartsWith(cs[i], "lg:")
         /\ parsed.breakpoint = breakpoint
         /\ parsed.uiState = uiState
         /\ shouldIncludeClassForProperty(parsed.baseClass, property)}

\* The breakpoints of the chain desktop..b that carry such a token.
CarryingBreakpoints(cs, property, b, uiState) ==
  LET chain == inheritanceChain(b)
  IN  {k \in 1..Len(chain) : TokensAt(cs, property, chain[k], uiState) # {}}

\* The narrowest (last in the chain) of them.
NarrowestCarrying(cs, property, b, uiState) ==
  LET ks == CarryingBreakpoints(cs, property, b, uiState)
  IN  inheritanceChain(b)[CHOOSE k \in ks : \A j \in ks : j <= k]

\* v is the value of the base token: the token itself, the text after its
\* family prefix, or its bracketed value.
ValueDenotes(v, baseClass) ==
  /\ Truthy(v)
  /\ \/ v = baseClass
     \/ EndsWith(baseClass, "-" \o v)
     \/ v = extractArbitraryValue(baseClass)

\* The lookup result is a token of cs at (breakpoint, uiState).
ResultIsTokenAt(cs, property, breakpoint, uiState, result) ==
  /\ result.source = breakpoint
  /\ \E i \in TokensAt(cs, property, breakpoint, uiState) :
        ValueDenotes(result.value, parseFullClass(cs[i]).baseClass)

\* C2: in the neutral state getInheritedValue returns the neutral token of
\* the narrowest breakpoint of the chain desktop..b that has one, with that
\* breakpoint as source (desktop-first cascade).
C2_NeutralCascade ==
  ( /\ call.fn = "getInheritedValue"
    /\ call.uiState = "neutral"
    /\ CarryingBreakpoints(classes, call.property, call.breakpoint, "neutral") # {} )
  => ResultIsTokenAt(classes, call.property,
                     NarrowestCarrying(classes, call.property, call.breakpoint, "neutral"),
                     "neutral", ret)

\* C3: at the desktop breakpoint, with an unprefixed neutral token and a
\* state-prefixed token for the property, the lookup under that state returns
\* the state token and the neutral lookup returns the neutral token, both
\* with source desktop.
C3_StateOverlayAtDesktop ==
  ( /\ call.fn = "getInheritedValue"
    /\ call.breakpoint = "desktop"
    /\ TokensAt(classes, call.property, "desktop", "neutral") # {}
    /\ TokensAt(classes, call.property, "desktop", "hover") # {}
    /\ call.uiState \in {"neutral", "hover"} )
  => ResultIsTokenAt(classes, call.property, "desktop", call.uiState, ret)

\* C4: for a non-neutral state, when some breakpoint of the chain carries a
\* token with the requested state prefix, getInheritedValue returns the state
\* token of the narrowest such breakpoint, whatever neutral tokens exist.
C4_StateBeatsNeutral ==
  ( /\ call.fn = "getInheritedValue"
    /\ call.uiState # "neutral"
    /\ CarryingBreakpoints(classes, call.property, call.breakpoint, call.uiState) # {} )
  => ResultIsTokenAt(classes, call.property,
                     NarrowestCarrying(classes, call.property, call.breakpoint,
                                       call.uiState),
                     call.uiState, ret)

RECURSIVE IsSubsequence(_, _)
\* a occurs in b, in order (not necessarily contiguously)
IsSubsequence(a, b) ==
  IF a = <<>> THEN TRUE
  ELSE IF b = <<>> THEN FALSE
  ELSE IF Head(a) = Head(b) THEN IsSubsequence(Tail(a), Tail(b))
  ELSE IsSubsequence(a, Tail(b))

\* The ConflictResolver classifies the base token under property.
ClassifiedUnder(baseClass, property) ==
  removeConflictingClasses(<<baseClass>>, property) = <<>>

\* cls is outside the target of setBreakpointClass(_, property, _, breakpoint, uiState)
OutsideTarget(cls, property, breakpoint, uiState) ==
  LET parsed == parseFullClass(cls)
  IN  \/ parsed.breakpoint # breakpoint
      \/ parsed.uiState # uiState
      \/ ~ClassifiedUnder(parsed.baseClass, property)

\* C6: setBreakpointClass leaves in the result, unmodified and in their
\* original relative order, every token of another (breakpoint, uiState)
\* pair and every token of the target pair not classified under property.
C6_SetPreservesOthers ==
  call.fn = "setBreakpointClass" =>
    IsSubsequence(
      SelectSeq(classes, LAMBDA cls :
        OutsideTarget(cls, call.property, call.breakpoint, call.uiState)),
      ret)

C6_Witness ==
  /\ call.fn = "setBreakpointClass"
  /\ call.property = "width"
  /\ call.breakpoint = "desktop"
  /\ call.uiState = "neutral"
  /\ call.newClass = "w-[9px]"
  /\ classes = <<"hover:w-[70px]", "w-[100px]">>
  /\ ret = <<"hover:w-[70px]", "lg:w-[9px]">>


(***************************************************************************)
(* PropertyClassCodec                                                      *)
(***************************************************************************)

DigitValue(c) ==
  CASE c = "0" -> 0 [] c = "1" -> 1 [] c = "2" -> 2 [] c = "3" -> 3 [] c = "4" -> 4
    [] c = "5" -> 5 [] c = "6" -> 6 [] c = "7" -> 7 [] c = "8" -> 8 [] c = "9" -> 9

DigitChar(n) ==
  CASE n = 0 -> "0" [] n = 1 -> "1" [] n = 2 -> "2" [] n = 3 -> "3" [] n = 4 -> "4"
    [] n = 5 -> "5" [] n = 6 -> "6" [] n = 7 -> "7" [] n = 8 -> "8" [] n = 9 -> "9"

RECURSIVE DigitsToInt(_)
\* the number written by a (possibly empty) string of digits
DigitsToInt(s) ==
  IF Len(s) = 0 THEN 0
  ELSE DigitsToInt(SubSeq(s, 1, Len(s) - 1)) * 10 + DigitValue(CharAt(s, Len(s)))

RECURSIVE NatToString(_)
\* Number.prototype.toString for a natural number
NatToString(n) ==
  IF n < 10 THEN DigitChar(n) ELSE NatToString(n \div 10) \o DigitChar(n % 10)

\* Math.round(parseFloat(value) * 100).toString() for a decimal d*.d+ ;
\* any other text with a "." does not parse to such a number here.
PercentOfDecimal(value) ==
  LET dots  == {k \in 1..Len(value) : CharAt(value, k) = "."}
      k     == CHOOSE d \in dots : TRUE
      whole == SubSeq(value, 1, k - 1)
      frac  == Slice(value, k)
      d1    == DigitValue(CharAt(frac, 1))
      d2    == IF Len(frac) >= 2 THEN DigitValue(CharAt(frac, 2)) ELSE 0
      up    == IF Len(frac) >= 3 /\ DigitValue(CharAt(frac, 3)) >= 5 THEN 1 ELSE 0
  IN  IF Cardinality(dots) = 1 /\ AllIn(whole, Digit) /\ IsDigits(frac)
      THEN NatToString(DigitsToInt(whole) * 100 + d1 * 10 + d2 + up)
      ELSE "NaN"

formatMeasurementClass(value, prefix, allowedNamedValues) ==
  IF InList(value, allowedNamedValues) THEN prefix \o "-" \o value
  ELSE IF EndsWith(value, "px") THEN prefix \o "-[" \o value \o "]"
  ELSE IF IsPlainNumber(value) THEN prefix \o "-[" \o value \o "px]"
  ELSE IF Len(value) >= 1 /\ CharAt(value, 1) \in Digit
       THEN prefix \o "-[" \o value \o "]"
  ELSE prefix \o "-" \o value

\* value.match(/^#|^rgb/)
IsHashOrRgb(value) == StartsWith(value, "#") \/ StartsWith(value, "rgb")

\* value.match(/^\d/)
StartsWithDigit(value) == Len(value) >= 1 /\ CharAt(value, 1) \in Digit

\* value.match(/[,\s]|^["']/)
IsCustomFont(value) ==
  \/ \E i \in 1..Len(value) : CharAt(value, i) \in ({","} \cup Whitespace)
  \/ StartsWith(value, "\"") \/ StartsWith(value, "'")

spacingPrefix(property) ==
  CASE property = "padding" -> "p" [] property = "paddingTop" -> "pt"
    [] property = "paddingRight" -> "pr" [] property = "paddingBottom" -> "pb"
    [] property = "paddingLeft" -> "pl" [] property = "margin" -> "m"
    [] property = "marginTop" -> "mt" [] property = "marginRight" -> "mr"
    [] property = "marginBottom" -> "mb" [] property = "marginLeft" -> "ml"
    [] OTHER -> NULL

sizingPrefix(property) ==
  CASE property = "width" -> "w" [] property = "height" -> "h"
    [] property = "minWidth" -> "min-w" [] property = "minHeight" -> "min-h"
    [] property = "maxWidth" -> "max-w" [] property = "maxHeight" -> "max-h"
    [] OTHER -> NULL

\* borders: side widths and radii share one construction
borderMeasurePrefix(property) ==
  CASE property = "borderWidth" -> "border" [] property = "borderTopWidth" -> "border-t"
    [] property = "borderRightWidth" -> "border-r"
    [] property = "borderBottomWidth" -> "border-b"
    [] property = "borderLeftWidth" -> "border-l"
    [] property = "borderRadius" -> "rounded"
    [] property = "borderTopLeftRadius" -> "rounded-tl"
    [] property = "borderTopRightRadius" -> "rounded-tr"
    [] property = "borderBottomRightRadius" -> "rounded-br"
    [] property = "borderBottomLeftRadius" -> "rounded-bl"
    [] OTHER -> NULL

layoutToClass(property, value) ==
  CASE property = "display" -> value
    [] property = "flexDirection" ->
         IF value = "row" THEN "flex-row"
         ELSE IF value = "column" THEN "flex-col"
         ELSE IF value = "row-reverse" THEN "flex-row-reverse"
         ELSE IF value = "column-reverse" THEN "flex-col-reverse"
         ELSE "flex-" \o value
    [] property = "flexWrap" ->
         IF value = "wrap" THEN "flex-wrap"
         ELSE IF value = "nowrap" THEN "flex-nowrap"
         ELSE IF value = "wrap-reverse" THEN "flex-wrap-reverse"
         ELSE NULL
    [] property = "justifyContent" -> "justify-" \o value
    [] property = "alignItems" -> "items-" \o value
    [] property = "alignContent" -> "content-" \o value
    [] property = "gap" -> formatMeasurementClass(value, "gap", <<>>)
    [] property = "columnGap" -> formatMeasurementClass(value, "gap-x", <<>>)
    [] property = "rowGap" -> formatMeasurementClass(value, "gap-y", <<>>)
    [] property = "gridTemplateColumns" -> "grid-cols-[" \o value \o "]"
    [] property = "gridTemplateRows" -> "grid-rows-[" \o value \o "]"
    [] OTHER -> NULL

typographyToClass(property, value) ==
  CASE property = "fontSize" -> formatMeasurementClass(value, "text", <<>>)
    [] property = "fontWeight" ->
         IF StartsWithDigit(value) THEN "font-[" \o value \o "]" ELSE "font-" \o value
    [] property = "fontFamily" ->
         IF IsCustomFont(value) THEN "font-[" \o value \o "]" ELSE "font-" \o value
    [] property = "lineHeight" ->
         IF StartsWithDigit(value) THEN "leading-[" \o value \o "]"
         ELSE "leading-" \o value
    [] property = "letterSpacing" -> formatMeasurementClass(value, "tracking", <<>>)
    [] property = "textAlign" -> "text-" \o value
    [] property = "textTransform" -> IF value = "none" THEN "normal-case" ELSE value
    [] property = "textDecoration" -> IF value = "none" THEN "no-underline" ELSE value
    [] property = "color" ->
         IF IsHashOrRgb(value) THEN "text-[" \o value \o "]" ELSE "text-" \o value
    [] OTHER -> NULL

bordersToClass(property, value) ==
  CASE property \in {"borderWidth", "borderTopWidth", "borderRightWidth",
                     "borderBottomWidth", "borderLeftWidth"} ->
         IF value = "1px" THEN borderMeasurePrefix(property)
         ELSE formatMeasurementClass(value, borderMeasurePrefix(property), <<>>)
    [] property = "borderStyle" -> "border-" \o value
    [] property = "borderColor" ->
         IF IsHashOrRgb(value) THEN "border-[" \o value \o "]" ELSE "border-" \o value
    [] property \in {"borderRadius", "borderTopLeftRadius", "borderTopRightRadius",
                     "borderBottomRightRadius", "borderBottomLeftRadius"} ->
         formatMeasurementClass(value, borderMeasurePrefix(property), <<>>)
    [] OTHER -> NULL

backgroundsToClass(property, value) ==
  CASE property = "backgroundColor" ->
         IF IsHashOrRgb(value) THEN "bg-[" \o value \o "]" ELSE "bg-" \o value
    [] property = "backgroundImage" ->
         IF StartsWith(value, "url(") THEN "bg-[" \o value \o "]" ELSE "bg-" \o value
    [] property = "backgroundSize" -> "bg-" \o value
    [] property = "backgroundPosition" -> "bg-" \o value
    [] property = "backgroundRepeat" ->
         IF value = "no-repeat" THEN "bg-no-repeat" ELSE "bg-" \o value
    [] OTHER -> NULL

effectsToClass(property, value) ==
  CASE property = "opacity" ->
         "opacity-[" \o (IF Includes(value, ".") THEN PercentOfDecimal(value) ELSE value)
                     \o "%]"
    [] property = "boxShadow" ->
         IF value = "none" THEN "shadow-none"
         ELSE IF value \in {"sm", "md", "lg", "xl", "2xl", "inner"} THEN "shadow-" \o value
         ELSE "shadow-[" \o value \o "]"
    [] OTHER -> NULL

positioningToClass(property, value) ==
  CASE property = "position" -> value
    [] property \in {"top", "right", "bottom", "left"} ->
         formatMeasurementClass(value, property, <<"auto">>)
    [] property = "zIndex" ->
         IF value = "auto" THEN "z-auto"
         ELSE IF StartsWithDigit(value) THEN "z-[" \o value \o "]"
         ELSE "z-" \o value
    [] OTHER -> NULL

propertyToClass(category, property, value) ==
  IF ~Truthy(value) THEN NULL
  ELSE CASE category = "layout" -> layoutToClass(property, value)
         [] category = "typography" -> typographyToClass(property, value)
         [] category = "spacing" ->
              IF spacingPrefix(property) = NULL THEN NULL
              ELSE IF StartsWith(property, "margin")
                   THEN formatMeasurementClass(value, spacingPrefix(property), <<"auto">>)
              ELSE formatMeasurementClass(value, spacingPrefix(property), <<>>)
         [] category = "sizing" ->
              IF sizingPrefix(property) = NULL THEN NULL
              ELSE IF value = "100%" THEN sizingPrefix(property) \o "-full"
              ELSE formatMeasurementClass(value, sizingPrefix(property),
                     <<"auto", "full", "screen", "min", "max", "fit">>)
         [] category = "borders" -> bordersToClass(property, value)
         [] category = "backgrounds" -> backgroundsToClass(property, value)
         [] category = "effects" -> effectsToClass(property, value)
         [] category = "positioning" -> positioningToClass(property, value)
         [] OTHER -> NULL


\* design: the eight categories, each a map from property name to value
EmptyDesign ==
  [layout |-> <<>>, typography |-> <<>>, spacing |-> <<>>, sizing |-> <<>>,
   borders |-> <<>>, backgrounds |-> <<>>, effects |-> <<>>, positioning |-> <<>>]

\* One assignment design[category][property] = value
A(category, property, value) ==
  [category |-> category, property |-> property, value |-> value]

SetProperty(map, property, value) ==
  [k \in DOMAIN map \cup {property} |-> IF k = property THEN value ELSE map[k]]

Assign(design, a) ==
  [design EXCEPT ![a.category] = SetProperty(@, a.property, a.value)]

\* cls.match(/^(hover|focus|active|disabled|visited):/) or
\* cls.match(/^(max-lg|max-md|lg|md):(hover|focus|active|disabled|visited):/)
IsStateSpecific(cls) ==
  \/ HasStatePrefix(cls)
  \/ \E p \in {"max-lg:", "max-md:", "lg:", "md:"} :
        StartsWith(cls, p) /\ HasStatePrefix(Slice(cls, Len(p)))

\* Variant of StripBreakpointPrefix that leaves the prefix in place.
KeepBreakpointPrefix(cls) == cls

\* cls.replace(/^(max-lg|max-md|lg|md):/, '')
StripBreakpointPrefix(cls) ==
  IF StartsWith(cls, "max-lg:") \/ StartsWith(cls, "max-md:") THEN Slice(cls, 7)
  ELSE IF StartsWith(cls, "lg:") \/ StartsWith(cls, "md:") THEN Slice(cls, 3)
  ELSE cls

\* The assignments the layout rules make for cls, in source order.
LayoutAssignments(cls) ==
  LET value == extractArbitraryValue(cls)
  IN  (IF cls = "block" THEN <<A("layout", "display", "block")>> ELSE <<>>)
      \o (IF cls = "inline-block" THEN <<A("layout", "display", "inline-block")>> ELSE <<>>)
      \o (IF cls = "inline" THEN <<A("layout", "display", "inline")>> ELSE <<>>)
      \o (IF cls = "flex" THEN <<A("layout", "display", "flex")>> ELSE <<>>)
      \o (IF cls = "inline-flex" THEN <<A("layout", "display", "inline-flex")>> ELSE <<>>)
      \o (IF cls = "grid" THEN <<A("layout", "display", "grid")>> ELSE <<>>)
      \o (IF cls = "inline-grid" THEN <<A("layout", "display", "inline-grid")>> ELSE <<>>)
      \o (IF cls = "hidden" THEN <<A("layout", "display", "hidden")>> ELSE <<>>)
      \o (IF cls = "flex-row" THEN <<A("layout", "flexDirection", "row")>> ELSE <<>>)
      \o (IF cls = "flex-row-reverse" THEN <<A("layout", "flexDirection", "row-reverse")>> ELSE <<>>)
      \o (IF cls = "flex-col" THEN <<A("layout", "flexDirection", "column")>> ELSE <<>>)
      \o (IF cls = "flex-col-reverse" THEN <<A("layout", "flexDirection", "column-reverse")>> ELSE <<>>)
      \o (IF StartsWith(cls, "justify-") /\ JustifyValue(Slice(cls, 8))
          THEN <<A("layout", "justifyContent", Slice(cls, 8))>> ELSE <<>>)
      \o (IF StartsWith(cls, "items-") /\ AlignItemsValue(Slice(cls, 6))
          THEN <<A("layout", "alignItems", Slice(cls, 6))>> ELSE <<>>)
      \o (IF StartsWith(cls, "gap-[") /\ Truthy(value) THEN <<A("layout", "gap", value)>> ELSE <<>>)
      \o (IF StartsWith(cls, "grid-cols-[") /\ Truthy(value) THEN <<A("layout", "gridTemplateColumns", value)>> ELSE <<>>)
      \o (IF StartsWith(cls, "grid-rows-[") /\ Truthy(value) THEN <<A("layout", "gridTemplateRows", value)>> ELSE <<>>)

\* The typography rules after the colour check.
TypographyAssignments(cls) ==
  LET value == extractArbitraryValue(cls)
      named == Includes(cls, "sans") \/ Includes(cls, "serif") \/ Includes(cls, "mono")
  IN  (IF StartsWith(cls, "text-[") /\ Truthy(value) THEN <<A("typography", "fontSize", value)>> ELSE <<>>)
      \o (IF StartsWith(cls, "font-[") /\ ~named /\ Truthy(value)
          THEN <<A("typography", "fontWeight", value)>> ELSE <<>>)
      \o (IF cls = "font-thin" THEN <<A("typography", "fontWeight", "100")>> ELSE <<>>)
      \o (IF cls = "font-extralight" THEN <<A("typography", "fontWeight", "200")>> ELSE <<>>)
      \o (IF cls = "font-light" THEN <<A("typography", "fontWeight", "300")>> ELSE <<>>)
      \o (IF cls = "font-normal" THEN <<A("typography", "fontWeight", "400")>> ELSE <<>>)
      \o (IF cls = "font-medium" THEN <<A("typography", "fontWeight", "500")>> ELSE <<>>)
      \o (IF cls = "font-semibold" THEN <<A("typography", "fontWeight", "600")>> ELSE <<>>)
      \o (IF cls = "font-bold" THEN <<A("typography", "fontWeight", "700")>> ELSE <<>>)
      \o (IF cls = "font-extrabold" THEN <<A("typography", "fontWeight", "800")>> ELSE <<>>)
      \o (IF cls = "font-black" THEN <<A("typography", "fontWeight", "900")>> ELSE <<>>)
      \o (IF StartsWith(cls, "font-[") /\ (named \/ Includes(cls, ",")) /\ Truthy(value)
          THEN <<A("typography", "fontFamily", value)>> ELSE <<>>)
      \o (IF cls = "font-sans" THEN <<A("typography", "fontFamily", "sans-serif")>> ELSE <<>>)
      \o (IF cls = "font-serif" THEN <<A("typography", "fontFamily", "serif")>> ELSE <<>>)
      \o (IF cls = "font-mono" THEN <<A("typography", "fontFamily", "monospace")>> ELSE <<>>)
      \o (IF cls = "text-left" THEN <<A("typography", "textAlign", "left")>> ELSE <<>>)
      \o (IF cls = "text-center" THEN <<A("typography", "textAlign", "center")>> ELSE <<>>)
      \o (IF cls = "text-right" THEN <<A("typography", "textAlign", "right")>> ELSE <<>>)
      \o (IF cls = "text-justify" THEN <<A("typography", "textAlign", "justify")>> ELSE <<>>)
      \o (IF cls = "uppercase" THEN <<A("typography", "textTransform", "uppercase")>> ELSE <<>>)
      \o (IF cls = "lowercase" THEN <<A("typography", "textTransform", "lowercase")>> ELSE <<>>)
      \o (IF cls = "capitalize" THEN <<A("typography", "textTransform", "capitalize")>> ELSE <<>>)
      \o (IF cls = "normal-case" THEN <<A("typography", "textTransform", "none")>> ELSE <<>>)
      \o (IF cls = "underline" THEN <<A("typography", "textDecoration", "underline")>> ELSE <<>>)
      \o (IF cls = "line-through" THEN <<A("typography", "textDecoration", "line-through")>> ELSE <<>>)
      \o (IF cls = "no-underline" THEN <<A("typography", "textDecoration", "none")>> ELSE <<>>)
      \o (IF StartsWith(cls, "leading-[") /\ Truthy(value) THEN <<A("typography", "lineHeight", value)>> ELSE <<>>)
      \o (IF StartsWith(cls, "tracking-[") /\ Truthy(value) THEN <<A("typography", "letterSpacing", value)>> ELSE <<>>)

SpacingAssignments(cls) ==
  LET value == extractArbitraryValue(cls)
  IN  (IF StartsWith(cls, "p-[") THEN (IF Truthy(value) THEN <<A("spacing", "padding", value)>> ELSE <<>>)
       ELSE IF StartsWith(cls, "pt-[") THEN (IF Truthy(value) THEN <<A("spacing", "paddingTop", value)>> ELSE <<>>)
       ELSE IF StartsWith(cls, "pr-[") THEN (IF Truthy(value) THEN <<A("spacing", "paddingRight", value)>> ELSE <<>>)
       ELSE IF StartsWith(cls, "pb-[") THEN (IF Truthy(value) THEN <<A("spacing", "paddingBottom", value)>> ELSE <<>>)
       ELSE IF StartsWith(cls, "pl-[") THEN (IF Truthy(value) THEN <<A("spacing", "paddingLeft", value)>> ELSE <<>>)
       ELSE <<>>)
      \o (IF StartsWith(cls, "m-[") THEN (IF Truthy(value) THEN <<A("spacing", "margin", value)>> ELSE <<>>)
       ELSE IF StartsWith(cls, "mt-[") THEN (IF Truthy(value) THEN <<A("spacing", "marginTop", value)>> ELSE <<>>)
       ELSE IF StartsWith(cls, "mr-[") THEN (IF Truthy(value) THEN <<A("spacing", "marginRight", value)>> ELSE <<>>)
       ELSE IF StartsWith(cls, "mb-[") THEN (IF Truthy(value) THEN <<A("spacing", "marginBottom", value)>> ELSE <<>>)
       ELSE IF StartsWith(cls, "ml-[") THEN (IF Truthy(value) THEN <<A("spacing", "marginLeft", value)>> ELSE <<>>)
       ELSE <<>>)

SizingAssignments(cls) ==
  LET value == extractArbitraryValue(cls)
  IN  (IF StartsWith(cls, "w-[") /\ Truthy(value) THEN <<A("sizing", "width", value)>> ELSE <<>>)
      \o (IF StartsWith(cls, "h-[") /\ Truthy(value) THEN <<A("sizing", "height", value)>> ELSE <<>>)
      \o (IF StartsWith(cls, "min-w-[") /\ Truthy(value) THEN <<A("sizing", "minWidth", value)>> ELSE <<>>)
      \o (IF StartsWith(cls, "min-h-[") /\ Truthy(value) THEN <<A("sizing", "minHeight", value)>> ELSE <<>>)
      \o (IF StartsWith(cls, "max-w-[") /\ Truthy(value) THEN <<A("sizing", "maxWidth", value)>> ELSE <<>>)
      \o (IF StartsWith(cls, "max-h-[") /\ Truthy(value) THEN <<A("sizing", "maxHeight", value)>> ELSE <<>>)

BordersAssignments(cls) ==
  LET value == extractArbitraryValue(cls)
  IN  (IF StartsWith(cls, "rounded-[") THEN (IF Truthy(value) THEN <<A("borders", "borderRadius", value)>> ELSE <<>>)
       ELSE IF StartsWith(cls, "rounded-tl-[") THEN (IF Truthy(value) THEN <<A("borders", "borderTopLeftRadius", value)>> ELSE <<>>)
       ELSE IF StartsWith(cls, "rounded-tr-[") THEN (IF Truthy(value) THEN <<A("borders", "borderTopRightRadius", value)>> ELSE <<>>)
       ELSE IF StartsWith(cls, "rounded-br-[") THEN (IF Truthy(value) THEN <<A("borders", "borderBottomRightRadius", value)>> ELSE <<>>)
       ELSE IF StartsWith(cls, "rounded-bl-[") THEN (IF Truthy(value) THEN <<A("borders", "borderBottomLeftRadius", value)>> ELSE <<>>)
       ELSE <<>>)
      \o (IF /\ StartsWith(cls, "border-[") /\ ~Includes(cls, "#") /\ ~Includes(cls, "rgb")
             /\ Truthy(value)
          THEN <<A("borders", "borderWidth", value)>> ELSE <<>>)
      \o (IF cls = "border-solid" THEN <<A("borders", "borderStyle", "solid")>> ELSE <<>>)
      \o (IF cls = "border-dashed" THEN <<A("borders", "borderStyle", "dashed")>> ELSE <<>>)
      \o (IF cls = "border-dotted" THEN <<A("borders", "borderStyle", "dotted")>> ELSE <<>>)
      \o (IF cls = "border-double" THEN <<A("borders", "borderStyle", "double")>> ELSE <<>>)
      \o (IF cls = "border-none" THEN <<A("borders", "borderStyle", "none")>> ELSE <<>>)
      \o (IF (StartsWith(cls, "border-[#") \/ StartsWith(cls, "border-[rgb")) /\ Truthy(value)
          THEN <<A("borders", "borderColor", value)>> ELSE <<>>)

BackgroundsAssignments(cls) ==
  LET value == extractArbitraryValue(cls)
  IN  IF (StartsWith(cls, "bg-[#") \/ StartsWith(cls, "bg-[rgb")) /\ Truthy(value)
      THEN <<A("backgrounds", "backgroundColor", value)>> ELSE <<>>

EffectsAssignments(cls) ==
  LET value == extractArbitraryValue(cls)
  IN  (IF StartsWith(cls, "opacity-[") /\ Truthy(value) THEN <<A("effects", "opacity", value)>> ELSE <<>>)
      \o (IF StartsWith(cls, "shadow-[") /\ Truthy(value) THEN <<A("effects", "boxShadow", value)>> ELSE <<>>)

PositioningAssignments(cls) ==
  LET value == extractArbitraryValue(cls)
  IN  (IF cls = "static" THEN <<A("positioning", "position", "static")>> ELSE <<>>)
      \o (IF cls = "relative" THEN <<A("positioning", "position", "relative")>> ELSE <<>>)
      \o (IF cls = "absolute" THEN <<A("positioning", "position", "absolute")>> ELSE <<>>)
      \o (IF cls = "fixed" THEN <<A("positioning", "position", "fixed")>> ELSE <<>>)
      \o (IF cls = "sticky" THEN <<A("positioning", "position", "sticky")>> ELSE <<>>)
      \o (IF StartsWith(cls, "top-[") /\ Truthy(value) THEN <<A("positioning", "top", value)>> ELSE <<>>)
      \o (IF StartsWith(cls, "right-[") /\ Truthy(value) THEN <<A("positioning", "right", value)>> ELSE <<>>)
      \o (IF StartsWith(cls, "bottom-[") /\ Truthy(value) THEN <<A("positioning", "bottom", value)>> ELSE <<>>)
      \o (IF StartsWith(cls, "left-[") /\ Truthy(value) THEN <<A("positioning", "left", value)>> ELSE <<>>)
      \o (IF StartsWith(cls, "z-[") /\ Truthy(value) THEN <<A("positioning", "zIndex", value)>> ELSE <<>>)

\* All assignments the forEach callback of classesToDesign makes for one
\* class, in source order (the colour rule returns early).
ClassAssignments(rawCls) ==
  LET cls   == StripBreakpointPrefix(rawCls)
      value == extractArbitraryValue(cls)
  IN  IF IsStateSpecific(rawCls) THEN <<>>
      ELSE LayoutAssignments(cls)
           \o (IF StartsWith(cls, "text-[") /\ Truthy(value) /\ isColorValue(value)
               THEN <<A("typography", "color", value)>>
               ELSE TypographyAssignments(cls) \o SpacingAssignments(cls)
                    \o SizingAssignments(cls) \o BordersAssignments(cls)
                    \o BackgroundsAssignments(cls) \o EffectsAssignments(cls)
                    \o PositioningAssignments(cls))

RECURSIVE AssignAll(_, _)
AssignAll(design, assignments) ==
  IF assignments = <<>> THEN design
  ELSE AssignAll(Assign(design, Head(assignments)), Tail(assignments))

RECURSIVE ParseClasses(_, _)
\* classList.forEach(cls => ...)
ParseClasses(design, classList) ==
  IF classList = <<>> THEN design
  ELSE ParseClasses(AssignAll(design, ClassAssignments(Head(classList))),
                    Tail(classList))

classesToDesign(classList) == ParseClasses(EmptyDesign, classList)


\* ------------------------------------------------------------------------
\* Specification SpecDesign: propertyToClass and classesToDesign applied to
\* bounded inputs.
\* ------------------------------------------------------------------------
DesignTokens ==
  {"flex", "hover:block", "max-md:w-[20px]", "max-lg:hover:w-[60px]",
   "md:grid", "lg:focus:p-[4px]", "text-[#ff0000]", "text-[1.5rem]",
   "max-lg:text-[red]", "visited:text-[2rem]", "w-[100px]", "font-bold"}

DesignInputs ==
  { <<"layout", "display", "flex">>, <<"layout", "flexDirection", "column">>,
    <<"layout", "flexWrap", "wrap">>, <<"layout", "justifyContent", "center">>,
    <<"layout", "alignItems", "center">>, <<"layout", "alignContent", "center">>,
    <<"layout", "gap", "10">>, <<"layout", "gap", "1rem">>,
    <<"typography", "fontSize", "16">>, <<"typography", "color", "#ff0000">>,
    <<"typography", "fontWeight", "700">>, <<"typography", "lineHeight", "1.5">>,
    <<"typography", "textAlign", "center">>,
    <<"typography", "textTransform", "none">>,
    <<"typography", "letterSpacing", "2px">>,
    <<"spacing", "padding", "10">>, <<"spacing", "marginTop", "2rem">>,
    <<"sizing", "width", "auto">>, <<"sizing", "width", "100">>,
    <<"sizing", "width", "10rem">>, <<"sizing", "height", "50px">>,
    <<"sizing", "maxWidth", "80%">>,
    <<"borders", "borderRadius", "4">>, <<"borders", "borderWidth", "2px">>,
    <<"borders", "borderStyle", "dashed">>,
    <<"borders", "borderColor", "#000000">>,
    <<"backgrounds", "backgroundColor", "#ff0000">>,
    <<"effects", "boxShadow", "0_0_4px_#000">>,
    <<"positioning", "position", "absolute">>, <<"positioning", "top", "5">>,
    <<"positioning", "zIndex", "10">>,
    <<"sizing", "rotate", "5">>, <<"sizing", "width", "">> }

InitDesign ==
  /\ RendererConstructed
  /\ classes \in ListsUpTo(DesignTokens, MaxClasses)
  /\ call = NoCall
  /\ ret = NULL

CallPropertyToClass ==
  /\ call = NoCall
  /\ \E input \in DesignInputs :
       /\ call' = [fn |-> "propertyToClass", category |-> input[1],
                   property |-> input[2], value |-> input[3]]
       /\ ret' = propertyToClass(input[1], input[2], input[3])
  /\ UNCHANGED <<classes, rendererVars, builderVars>>

CallClassesToDesign ==
  /\ call = NoCall
  /\ call' = [fn |-> "classesToDesign"]
  /\ ret' = classesToDesign(classes)
  /\ UNCHANGED <<classes, rendererVars, builderVars>>

NextDesign == CallPropertyToClass \/ CallClassesToDesign

SpecDesign == InitDesign /\ [][NextDesign]_vars

\* ------------------------------------------------------------------------
\* Properties of the property/class codec (SpecDesign)
\* ------------------------------------------------------------------------
\* The families whose bracket token is shared by two properties.
OverloadedProperty(property) ==
  property \in {"fontSize", "color", "backgroundColor", "backgroundImage"}

\* Format normalisation: a bare number gains "px".
Normalised(value) == IF IsPlainNumber(value) THEN value \o "px" ELSE value

\* C8: round trip. Whenever propertyToClass returned a token for a property
\* of a non-overloaded family, parsing that single token with classesToDesign
\* gives a design whose [category][property] is the value that went in, up to
\* format normalisation.
C8_RoundTrip ==
  (/\ call.fn = "propertyToClass"
   /\ ret # NULL
   /\ ~OverloadedProperty(call.property))
  => LET design == classesToDesign(<<ret>>)
     IN  /\ call.property \in DOMAIN design[call.category]
         /\ design[call.category][call.property] = Normalised(call.value)

\* The token list the snapshot is taken of: tokens with a bare state prefix or
\* a breakpoint+state compound prefix deleted, the breakpoint prefix of a
\* breakpoint-only token stripped.
BreakpointPrefixOf(token) ==
  IF \E p \in {"max-lg:", "max-md:", "lg:", "md:"} : StartsWith(token, p)
  THEN CHOOSE p \in {"max-lg:", "max-md:", "lg:", "md:"} : StartsWith(token, p)
  ELSE ""

CarriesState(token) ==
  LET rest == Slice(token, Len(BreakpointPrefixOf(token)))
  IN  \E m \in {"hover:", "focus:", "active:", "disabled:", "visited:"} :
         StartsWith(rest, m)

RECURSIVE NeutralTokens(_)
NeutralTokens(tokens) ==
  IF tokens = <<>> THEN <<>>
  ELSE LET token == Head(tokens)
       IN  IF CarriesState(token) THEN NeutralTokens(Tail(tokens))
           ELSE <<Slice(token, Len(BreakpointPrefixOf(token)))>>
                \o NeutralTokens(Tail(tokens))

\* C9: state-specific tokens never populate the design snapshot.
\* classesToDesign(tokens) equals classesToDesign of the list with every
\* state-carrying token deleted and every breakpoint-only prefix stripped.
C9_StateTokensExcluded ==
  call.fn = "classesToDesign" => ret = classesToDesign(NeutralTokens(classes))

C9_Witness ==
  /\ call.fn = "classesToDesign"
  /\ classes = <<"max-md:w-[20px]", "hover:block">>
  /\ ret = [EmptyDesign EXCEPT !.sizing = [width |-> "20px"]]


(***************************************************************************)
(* Canvas renderer: effective class list of a layer.                       *)
(* A class string is kept as the sequence of its tokens: the tokens of a   *)
(* layer are non-empty and hold no blank, so join(' ') followed by         *)
(* split(' ').filter(Boolean) gives the tokens back.                       *)
(***************************************************************************)

\* The elements of seq at the positions in keep, in order.
SelectAt(seq, keep) ==
  [k \in 1..Cardinality(keep) |->
     seq[CHOOSE i \in keep : Cardinality({j \in keep : j < i}) = k - 1]]

\* Loop body of filterClassesByBreakpoint: is cls pushed to filtered?
IncludedAtBreakpoint(cls, breakpoint) ==
  LET hasMd == StartsWith(cls, "md:") \/ Includes(cls, " md:")
      hasLg == StartsWith(cls, "lg:") \/ Includes(cls, " lg:")
  IN  IF ~hasMd /\ ~hasLg THEN TRUE
      ELSE IF breakpoint = "mobile" THEN FALSE
      ELSE IF breakpoint = "tablet" THEN hasMd /\ ~hasLg
      ELSE IF breakpoint = "desktop" THEN hasMd \/ hasLg
      ELSE FALSE

filterClassesByBreakpoint(classArray, breakpoint) ==
  SelectAt(classArray,
           {i \in 1..Len(classArray) :
              IncludedAtBreakpoint(classArray[i], breakpoint)})

stateModifiers == <<"hover:", "focus:", "active:", "disabled:", "visited:">>

\* cls.replace(/^(max-lg:|max-md:|lg:|md:)/, '')
AfterBreakpoint(cls) ==
  IF StartsWith(cls, "max-lg:") \/ StartsWith(cls, "max-md:") THEN Slice(cls, 7)
  ELSE IF StartsWith(cls, "lg:") \/ StartsWith(cls, "md:") THEN Slice(cls, 3)
  ELSE cls

\* Variant of hasStateModifier that looks for bare state prefixes only.
hasBareStateModifier(cls) ==
  \E i \in 1..Len(stateModifiers) : StartsWith(cls, stateModifiers[i])

\* forEach body of filterNeutralClasses
hasStateModifier(cls) ==
  \/ \E i \in 1..Len(stateModifiers) : StartsWith(cls, stateModifiers[i])
  \/ /\ AfterBreakpoint(cls) # cls
     /\ \E i \in 1..Len(stateModifiers) :
           StartsWith(AfterBreakpoint(cls), stateModifiers[i])

filterNeutralClasses(classArray) ==
  SelectAt(classArray,
           {i \in 1..Len(classArray) : ~hasStateModifier(classArray[i])})

displayValues ==
  <<"flex", "inline-flex", "block", "inline-block", "inline", "grid",
    "inline-grid", "hidden", "table", "table-row", "table-cell">>

flexDirectionValues == <<"flex-row", "flex-row-reverse", "flex-col", "flex-col-reverse">>

flexWrapValues == <<"flex-wrap", "flex-wrap-reverse", "flex-nowrap">>

\* /^<family>-[a-z]+-\d+$/ for family = text, bg, border
IsNamedScaleColor(cls, family) ==
  LET rest == Slice(cls, Len(family) + 1)
  IN  /\ StartsWith(cls, family \o "-")
      /\ \E k \in 1..Len(rest) :
            /\ CharAt(rest, k) = "-"
            /\ IsLower(SubSeq(rest, 1, k - 1))
            /\ IsDigits(Slice(rest, k))

\* /^([a-z-]+)-/ : the end of the match, 0 when there is none. The group is
\* greedy, so the match ends at the last "-" of the leading run of [a-z-].
PropertyPartEnd(cls) ==
  LET run  == {k \in 1..Len(cls) :
                 AllIn(SubSeq(cls, 1, k), LowerAlpha \cup {"-"})}
      ends == {k \in run : k >= 2 /\ CharAt(cls, k) = "-"}
  IN  IF ends = {} THEN 0 ELSE CHOOSE k \in ends : \A j \in ends : j <= k

getClassPrefix(fullCls) ==
  LET prefix == IF StartsWith(fullCls, "max-lg:") THEN "max-lg:"
                ELSE IF StartsWith(fullCls, "max-md:") THEN "max-md:"
                ELSE ""
      cls    == Slice(fullCls, Len(prefix))
  IN  IF InList(cls, displayValues) THEN prefix \o "display"
      ELSE IF InList(cls, flexDirectionValues) THEN prefix \o "flex-direction"
      ELSE IF InList(cls, flexWrapValues) THEN prefix \o "flex-wrap"
      ELSE IF StartsWith(cls, "justify-") THEN prefix \o "justify-"
      ELSE IF StartsWith(cls, "items-") THEN prefix \o "items-"
      ELSE IF IsNamedScaleColor(cls, "text") THEN prefix \o "text-"
      ELSE IF IsNamedScaleColor(cls, "bg") THEN prefix \o "bg-"
      ELSE IF IsNamedScaleColor(cls, "border") THEN prefix \o "border-"
      ELSE IF PropertyPartEnd(cls) > 0
           THEN prefix \o SubSeq(cls, 1, PropertyPartEnd(cls))
      ELSE prefix \o cls

\* state === 'current' ? 'visited:' : `${state}:`
StatePrefixOf(state) == IF state = "current" THEN "visited:" ELSE state \o ":"

\* Does the first pass of activateStateClasses take cls?
IsActivated(cls, statePrefix) ==
  \/ StartsWith(cls, statePrefix)
  \/ StartsWith(cls, "max-lg:" \o statePrefix)
  \/ StartsWith(cls, "max-md:" \o statePrefix)

\* First pass: the class pushed to activatedClasses for cls.
ActivatedClass(cls, statePrefix) ==
  IF StartsWith(cls, statePrefix) THEN Slice(cls, Len(statePrefix))
  ELSE IF StartsWith(cls, "max-lg:" \o statePrefix)
       THEN "max-lg:" \o Slice(cls, Len("max-lg:" \o statePrefix))
  ELSE "max-md:" \o Slice(cls, Len("max-md:" \o statePrefix))

\* First pass: the entry added to activatedBaseClasses for cls.
ActivatedBaseClass(cls, statePrefix) ==
  IF StartsWith(cls, statePrefix)
  THEN getClassPrefix(Slice(cls, Len(statePrefix)))
  ELSE IF StartsWith(cls, "max-lg:" \o statePrefix)
       THEN "max-lg:" \o getClassPrefix(Slice(cls, Len("max-lg:" \o statePrefix)))
  ELSE "max-md:" \o getClassPrefix(Slice(cls, Len("max-md:" \o statePrefix)))

\* Second pass: cls belongs to another state than the active one.
IsOtherState(cls, statePrefix) ==
  \E i \in 1..Len(stateModifiers) :
     /\ stateModifiers[i] # statePrefix
     /\ \/ StartsWith(cls, stateModifiers[i])
        \/ StartsWith(cls, "max-lg:" \o stateModifiers[i])
        \/ StartsWith(cls, "max-md:" \o stateModifiers[i])

activateStateClasses(classArray, state) ==
  LET statePrefix == StatePrefixOf(state)
      n == Len(classArray)
      activated == SelectAt(classArray,
                     {i \in 1..n : IsActivated(classArray[i], statePrefix)})
      activatedClasses ==
        [i \in 1..Len(activated) |-> ActivatedClass(activated[i], statePrefix)]
      activatedBaseClasses ==
        {ActivatedBaseClass(activated[i], statePrefix) : i \in 1..Len(activated)}
      kept == SelectAt(classArray,
                {i \in 1..n :
                   /\ ~IsActivated(classArray[i], statePrefix)
                   /\ ~IsOtherState(classArray[i], statePrefix)
                   /\ getClassPrefix(classArray[i]) \notin activatedBaseClasses})
  IN  activatedClasses \o kept

\* The functions below that read the script's state variables take them as
\* the record state (see RendererState).
getClassesString(layer, state) ==
  LET filtered == filterClassesByBreakpoint(layer.classes, state.currentBreakpoint)
  IN  IF state.currentUIState = "neutral" THEN filterNeutralClasses(filtered)
      ELSE activateStateClasses(filtered, state.currentUIState)


(***************************************************************************)
(* Canvas renderer: data.  A JavaScript object used as a map is the        *)
(* sequence of its <<key, value>> entries; an optional object carries a    *)
(* "defined" flag.                                                         *)
(***************************************************************************)

\* map[key] || default
Get(map, key, default) ==
  IF \E i \in 1..Len(map) : map[i][1] = key
  THEN map[CHOOSE i \in 1..Len(map) : map[i][1] = key][2]
  ELSE default

\* layer.text: undefined, a string, or a field variable
NoText == [type |-> "undefined", value |-> "", field_id |-> NULL]

StringText(value) == [type |-> "string", value |-> value, field_id |-> NULL]

FieldText(fieldId) == [type |-> "field", value |-> NULL, field_id |-> fieldId]

\* collectionItemData: undefined outside a repetition, else item.values
NoItemData == [defined |-> FALSE, values |-> <<>>]

ItemData(values) == [defined |-> TRUE, values |-> values]

\* layer.variables.collection / layer.collection when absent
NoCollection ==
  [defined |-> FALSE, id |-> NULL, sort_by |-> NULL, sort_order |-> NULL]

\* layer.variables.text when absent
NoInlineContent == [defined |-> FALSE, data |-> "", variables |-> <<>>]

NoLinkSettings == [defined |-> FALSE, href |-> NULL, target |-> NULL, rel |-> NULL]

(***************************************************************************)
(* getText                                                                 *)
(***************************************************************************)
MarkerOpen == "<ycode-inline-variable id=\""

MarkerClose == "\"></ycode-inline-variable>"

\* Index of the first occurrence of sub in s at or after from, 0 if none.
IndexOf(s, sub, from) ==
  LET hits == {i \in from..(Len(s) - Len(sub) + 1) :
                 SubSeq(s, i, i + Len(sub) - 1) = sub}
  IN  IF hits = {} THEN 0 ELSE CHOOSE i \in hits : \A j \in hits : i <= j

\* /<ycode-inline-variable id="([^"]+)"><\/ycode-inline-variable>/ matched at
\* index i: the index of the quote that closes the id, 0 if no match at i.
MarkerIdEnd(s, i) ==
  LET idStart == i + Len(MarkerOpen)
      quote   == IndexOf(s, "\"", idStart)
  IN  IF /\ StartsWith(Slice(s, i - 1), MarkerOpen)
         /\ quote > idStart
         /\ StartsWith(Slice(s, quote - 1), MarkerClose)
      THEN quote ELSE 0

\* Variant of ResolveVariable without the check of the field list.
ResolveVariableUnchecked(variableId, variables, collectionItemData, fieldsForCollection) ==
  LET variable == Get(variables, variableId, FieldText(NULL))
      value == Get(collectionItemData.values, variable.field_id, NULL)
  IN  IF variable.type = "field" /\ Truthy(variable.field_id) /\ value # NULL
      THEN value ELSE ""

\* The replacement callback of getText (lines 433-455).
ResolveVariable(variableId, variables, collectionItemData, fieldsForCollection) ==
  LET variable == Get(variables, variableId, FieldText(NULL))
      fieldId  == variable.field_id
      fieldExists == \E i \in 1..Len(fieldsForCollection) :
                        fieldsForCollection[i].id = fieldId
      value == Get(collectionItemData.values, fieldId, NULL)
  IN  IF variable.type = "field" /\ Truthy(fieldId)
      THEN IF ~fieldExists THEN ""
           ELSE IF value # NULL THEN value ELSE ""
      ELSE ""

RECURSIVE ReplaceMarkersFrom(_, _, _, _, _, _)
\* The part of the result of the replace that comes from s at and after from.
ReplaceMarkersFrom(s, from, resolve, variables, collectionItemData, fieldsForCollection) ==
  LET starts == {i \in from..Len(s) : MarkerIdEnd(s, i) > 0}
      i      == CHOOSE k \in starts : \A j \in starts : k <= j
      quote  == MarkerIdEnd(s, i)
      id     == SubSeq(s, i + Len(MarkerOpen), quote - 1)
  IN  IF starts = {} THEN Slice(s, from - 1)
      ELSE SubSeq(s, from, i - 1)
           \o (IF resolve
               THEN ResolveVariable(id, variables, collectionItemData,
                                    fieldsForCollection)
               ELSE "")
           \o ReplaceMarkersFrom(s, quote + Len(MarkerClose), resolve, variables,
                                 collectionItemData, fieldsForCollection)

\* resolvedText.replace(regex, callback) when resolve, and
\* resolvedText.replace(regex, '') otherwise.
ReplaceMarkers(s, resolve, variables, collectionItemData, fieldsForCollection) ==
  ReplaceMarkersFrom(s, 1, resolve, variables, collectionItemData,
                     fieldsForCollection)

\* /<ycode-inline-variable[^>]*>.*?<\/ycode-inline-variable>/ matched at index
\* i: the index of the last character of the match, 0 if no match at i.
TagEnd(s, i) ==
  LET gt    == IndexOf(s, ">", i + Len("<ycode-inline-variable"))
      close == IndexOf(s, "</ycode-inline-variable>", gt + 1)
  IN  IF /\ StartsWith(Slice(s, i - 1), "<ycode-inline-variable")
         /\ gt > 0
         /\ close > 0
      THEN close + Len("</ycode-inline-variable>") - 1 ELSE 0

RECURSIVE StripVariableTagsFrom(_, _)
StripVariableTagsFrom(s, from) ==
  LET starts == {i \in from..Len(s) : TagEnd(s, i) > 0}
      i      == CHOOSE k \in starts : \A j \in starts : k <= j
  IN  IF starts = {} THEN Slice(s, from - 1)
      ELSE SubSeq(s, from, i - 1) \o StripVariableTagsFrom(s, TagEnd(s, i) + 1)

\* text.replace(/<ycode-inline-variable[^>]*>.*?<\/ycode-inline-variable>/g, '')
StripVariableTags(s) == StripVariableTagsFrom(s, 1)

\* layer.text || layer.content || ''
TextOrContent(layer) ==
  IF layer.text.type = "field" THEN layer.text
  ELSE IF layer.text.type = "string" /\ layer.text.value # "" THEN layer.text
  ELSE IF Truthy(layer.content) THEN StringText(layer.content)
  ELSE StringText("")

getText(layer, collectionItemData, collectionId, state) ==
  LET text == TextOrContent(layer)
      inlineContent == layer.variables.text
      fieldsForCollection ==
        IF Truthy(collectionId) THEN Get(state.collectionFields, collectionId, <<>>)
        ELSE <<>>
  IN  IF text.type = "field" /\ Truthy(text.field_id)
      THEN IF /\ collectionItemData.defined
              /\ Get(collectionItemData.values, text.field_id, NULL) # NULL
           THEN Get(collectionItemData.values, text.field_id, NULL)
           ELSE ""
      ELSE IF inlineContent.defined
      THEN ReplaceMarkers(inlineContent.data, collectionItemData.defined,
                          inlineContent.variables, collectionItemData,
                          fieldsForCollection)
      ELSE IF text.type = "string" /\ Includes(text.value, "<ycode-inline-variable")
      THEN StripVariableTags(text.value)
      ELSE text.value


(***************************************************************************)
(* sortCollectionItems                                                     *)
(***************************************************************************)

\* Variant of ManualOrderCompare with the operands exchanged.
ReverseManualOrderCompare(a, b) == b.manual_order - a.manual_order

\* (a, b) => a.manual_order - b.manual_order
ManualOrderCompare(a, b) == a.manual_order - b.manual_order

\* The number of leading decimal digits of s.
LeadingDigits(s) ==
  CHOOSE k \in 0..Len(s) :
     /\ AllIn(SubSeq(s, 1, k), Digit)
     /\ (k < Len(s) => CharAt(s, k + 1) \notin Digit)

\* The parsed number: NaN if no digit was found, else its sign, its integer
\* digits (ni of them) and its fraction digits (nf of them, after a ".").
Decimal(neg, body, ni, nf) ==
  [nan  |-> ni = 0 /\ nf = 0,
   neg  |-> neg,
   int  |-> SubSeq(body, 1, ni),
   frac |-> IF nf = 0 THEN "" ELSE SubSeq(body, ni + 2, ni + nf + 1)]

FractionDigits(rest) ==
  IF StartsWith(rest, ".") THEN LeadingDigits(Slice(rest, 1)) ELSE 0

ParseDigits(neg, body, ni) ==
  Decimal(neg, body, ni, FractionDigits(Slice(body, ni)))

ParseUnsigned(neg, body) == ParseDigits(neg, body, LeadingDigits(body))

ParseTrimmed(trimmed) ==
  ParseUnsigned(StartsWith(trimmed, "-"),
                IF StartsWith(trimmed, "-") \/ StartsWith(trimmed, "+")
                THEN Slice(trimmed, 1) ELSE trimmed)

\* parseFloat(String(value)) for decimal literals without exponent: blanks, a
\* sign, digits, an optional "." and digits; NaN if no digit is found.
parseFloat(value) == ParseTrimmed(SkipSpaces(value))

RECURSIVE PadRight(_, _)
PadRight(digits, n) == IF Len(digits) >= n THEN digits ELSE PadRight(digits \o "0", n)

\* The number times 10^n, an integer when n is at least its fraction digits.
Scaled(num, n) ==
  LET magnitude == DigitsToInt(num.int \o PadRight(num.frac, n))
  IN  IF num.neg THEN 0 - magnitude ELSE magnitude

\* The sign of aNum - bNum
NumericCompare(aNum, bNum) ==
  LET n == IF Len(aNum.frac) >= Len(bNum.frac) THEN Len(aNum.frac)
           ELSE Len(bNum.frac)
  IN  Scaled(aNum, n) - Scaled(bNum, n)

\* Collation order of the characters the sample values are written with.
CollationOrder == " 0123456789abcdefghijklmnopqrstuvwxyz"

CollationRank(c) == CHOOSE i \in 1..Len(CollationOrder) : CharAt(CollationOrder, i) = c

RECURSIVE localeCompare(_, _)
\* String.prototype.localeCompare for strings of blanks, digits and lower-case
\* letters.
localeCompare(a, b) ==
  IF Len(a) = 0 /\ Len(b) = 0 THEN 0
  ELSE IF Len(a) = 0 THEN 0 - 1
  ELSE IF Len(b) = 0 THEN 1
  ELSE IF CharAt(a, 1) = CharAt(b, 1) THEN localeCompare(Slice(a, 1), Slice(b, 1))
  ELSE IF CollationRank(CharAt(a, 1)) < CollationRank(CharAt(b, 1)) THEN 0 - 1
  ELSE 1

\* if (!isNaN(aNum) && !isNaN(bNum)) ... (lines 520-528)
CompareParsed(aNum, bNum, aValue, bValue, sortOrder) ==
  IF ~aNum.nan /\ ~bNum.nan
  THEN IF sortOrder = "asc" THEN NumericCompare(aNum, bNum)
       ELSE NumericCompare(bNum, aNum)
  ELSE IF sortOrder = "asc" THEN localeCompare(aValue, bValue)
       ELSE 0 - localeCompare(aValue, bValue)

CompareValues(aValue, bValue, sortOrder) ==
  CompareParsed(parseFloat(aValue), parseFloat(bValue), aValue, bValue, sortOrder)

\* a.values[sortBy] || ''
SortValue(found) == IF Truthy(found) THEN found ELSE ""

\* The comparator of the field-based sort (lines 513-529).
FieldCompare(a, b, sortBy, sortOrder) ==
  CompareValues(SortValue(Get(a.values, sortBy, NULL)),
                SortValue(Get(b.values, sortBy, NULL)), sortOrder)

ItemCompare(a, b, sortBy, sortOrder) ==
  IF sortBy = "manual" THEN ManualOrderCompare(a, b)
  ELSE FieldCompare(a, b, sortBy, sortOrder)

\* An item comes after the items that compare lower and the earlier items
\* that compare equal; compared is the comparator's result for items j and i.
ComesBefore(compared, j, i) == compared < 0 \/ (compared = 0 /\ j < i)

\* Array.prototype.sort: stable, and determined by the comparator when the
\* comparator is a consistent ordering, as it is for the sample records.
StableSort(items, sortBy, sortOrder) ==
  LET n == Len(items)
      Position(i) ==
        Cardinality({j \in 1..n :
                       ComesBefore(ItemCompare(items[j], items[i], sortBy, sortOrder),
                                   j, i)}) + 1
  IN  [k \in 1..n |-> items[CHOOSE i \in 1..n : Position(i) = k]]

Swap(items, i, j) ==
  [k \in 1..Len(items) |-> IF k = i THEN items[j]
                           ELSE IF k = j THEN items[i] ELSE items[k]]

RECURSIVE FisherYates(_, _, _)
\* The shuffle loop (lines 505-508), position i downwards; shuffle[i] is the
\* position drawn by Math.random for i.
FisherYates(items, i, shuffle) ==
  IF i < 2 THEN items
  ELSE FisherYates(Swap(items, i, shuffle[i]), i - 1, shuffle)

\* The draws Math.random can make for a list of n items.
Shuffles(n) == {f \in [2..n -> 1..n] : \A i \in 2..n : f[i] <= i}

\* The manual and the field-based branch differ in the comparator, which
\* ItemCompare selects.
sortCollectionItems(items, collectionVariable, fields, shuffle) ==
  LET sortBy    == collectionVariable.sort_by
      sortOrder == IF Truthy(collectionVariable.sort_order)
                   THEN collectionVariable.sort_order ELSE "asc"
  IN  IF ~collectionVariable.defined \/ Len(items) = 0 THEN items
      ELSE IF ~Truthy(sortBy) \/ sortBy = "none" THEN items
      ELSE IF sortBy = "random" THEN FisherYates(items, Len(items), shuffle)
      ELSE StableSort(items, sortBy, sortOrder)

(***************************************************************************)
(* renderLayer, render                                                     *)
(***************************************************************************)

\* A created element, with the properties and attributes the renderer sets.
Element(tag) ==
  [tag |-> tag, layerId |-> NULL, layerType |-> NULL, itemId |-> NULL,
   classList |-> <<>>, id |-> NULL, attributes |-> <<>>,
   src |-> NULL, alt |-> NULL, href |-> NULL, target |-> NULL, rel |-> NULL,
   textContent |-> "", value |-> NULL, listeners |-> <<>>, children |-> <<>>]

getLayerHtmlTag(layer) ==
  IF Truthy(layer.settings.tag) THEN layer.settings.tag
  ELSE IF Truthy(layer.name) THEN layer.name
  ELSE "div"

\* The ordered set of the tokens of a class attribute.
Unique(tokens) ==
  SelectAt(tokens, {i \in 1..Len(tokens) : \A j \in 1..(i - 1) : tokens[j] # tokens[i]})

\* element.classList.add(token)
ClassListAdd(classList, token) ==
  IF InList(token, classList) THEN Unique(classList)
  ELSE Append(Unique(classList), token)

isTextEditable(layer) == layer.formattable

\* The listeners addEventListeners attaches for a layer.
addEventListeners(layer) ==
  <<"click">> \o (IF isTextEditable(layer) THEN <<"dblclick">> ELSE <<>>)
  \o <<"contextmenu", "mouseenter", "mouseleave">>

\* layer.variables?.collection || layer.collection || null
CollectionVariableOf(layer) ==
  IF layer.variables.collection.defined THEN layer.variables.collection
  ELSE layer.collection

\* The link attributes of an anchor (lines 648-658)
WithLink(element, linked, link) ==
  [element EXCEPT
     !.href = IF linked THEN (IF Truthy(link.href) THEN link.href ELSE "#")
              ELSE NULL,
     !.target = IF linked /\ Truthy(link.target) THEN link.target ELSE NULL,
     !.rel = IF linked /\ Truthy(link.rel) THEN link.rel ELSE NULL]

\* if (editMode) element.classList.add('ycode-layer')
EditModeClass(classList, state) ==
  IF state.editMode THEN ClassListAdd(classList, "ycode-layer") ELSE classList

\* The class of the selected layer (lines 724-729)
SelectionClass(classList, layer, state) ==
  IF state.selectedLayerId = layer.id
  THEN ClassListAdd(classList,
                    IF Truthy(state.editingComponentId)
                    THEN "ycode-selected-purple" ELSE "ycode-selected")
  ELSE classList

ElementOf(layer, tag, classList, textContent, state) ==
  WithLink([Element(tag) EXCEPT
              !.layerId = layer.id,
              !.layerType = tag,
              !.classList = classList,
              !.id = IF Truthy(layer.settings.id) THEN layer.settings.id ELSE NULL,
              !.attributes = layer.settings.customAttributes,
              !.src = IF tag = "img"
                      THEN (IF Truthy(layer.url) THEN layer.url ELSE "") ELSE NULL,
              !.alt = IF tag = "img"
                      THEN (IF Truthy(layer.alt) THEN layer.alt ELSE "Image")
                      ELSE NULL,
              !.textContent = IF Truthy(textContent) /\ Len(layer.children) = 0
                              THEN textContent ELSE "",
              !.listeners = IF state.editMode THEN addEventListeners(layer)
                            ELSE <<>>],
           tag = "a" /\ layer.settings.linkSettings.defined,
           layer.settings.linkSettings)

\* The element of renderLayer before its children are rendered (lines
\* 613-663) with the listeners and the selection state (lines 719-729).
LayerElement(layer, collectionItemData, activeCollectionId, state) ==
  ElementOf(layer, getLayerHtmlTag(layer),
            SelectionClass(EditModeClass(getClassesString(layer, state), state),
                           layer, state),
            getText(layer, collectionItemData, activeCollectionId, state),
            state)

RECURSIVE renderLayer(_, _, _, _, _)
RECURSIVE RenderChildren(_, _, _, _, _)
RECURSIVE RenderItems(_, _, _, _, _)

\* children.forEach(child => { const e = renderLayer(child, ...);
\*                             if (e) parent.appendChild(e) })
RenderChildren(children, collectionItemData, activeCollectionId, state, shuffle) ==
  IF children = <<>> THEN <<>>
  ELSE renderLayer(Head(children), collectionItemData, activeCollectionId, state,
                   shuffle)
       \o RenderChildren(Tail(children), collectionItemData, activeCollectionId,
                         state, shuffle)

\* items.forEach(item => ...): one wrapper per item (lines 688-704)
RenderItems(items, layer, activeCollectionId, state, shuffle) ==
  IF items = <<>> THEN <<>>
  ELSE <<[Element("div") EXCEPT
            !.itemId = Head(items).id,
            !.children = RenderChildren(layer.children,
                                        ItemData(Head(items).values),
                                        activeCollectionId, state, shuffle)]>>
       \o RenderItems(Tail(items), layer, activeCollectionId, state, shuffle)

\* Variant of renderLayer that hands no record to the children of a layer
\* without collection binding.
renderLayerShallow(layer, collectionItemData, parentCollectionId, state, shuffle) ==
  LET collectionVariable == CollectionVariableOf(layer)
      collectionId       == collectionVariable.id
      activeCollectionId == IF Truthy(collectionId) THEN collectionId
                            ELSE parentCollectionId
  IN  IF layer.settings.hidden THEN <<>>
      ELSE <<[LayerElement(layer, collectionItemData, activeCollectionId, state)
              EXCEPT !.children =
                IF Len(layer.children) = 0 THEN <<>>
                ELSE IF collectionVariable.defined /\ Truthy(collectionId)
                THEN RenderItems(
                       sortCollectionItems(
                         Get(state.collectionItems, collectionId, <<>>),
                         collectionVariable,
                         Get(state.collectionFields, collectionId, <<>>),
                         shuffle),
                       layer, activeCollectionId, state, shuffle)
                ELSE RenderChildren(layer.children, NoItemData,
                                    activeCollectionId, state, shuffle)]>>

\* The result is the empty sequence for null, else the one element created.
renderLayer(layer, collectionItemData, parentCollectionId, state, shuffle) ==
  LET collectionVariable == CollectionVariableOf(layer)
      collectionId       == collectionVariable.id
      activeCollectionId == IF Truthy(collectionId) THEN collectionId
                            ELSE parentCollectionId
  IN  IF layer.settings.hidden THEN <<>>
      ELSE <<[LayerElement(layer, collectionItemData, activeCollectionId, state)
              EXCEPT !.children =
                IF Len(layer.children) = 0 THEN <<>>
                ELSE IF collectionVariable.defined /\ Truthy(collectionId)
                THEN RenderItems(
                       sortCollectionItems(
                         Get(state.collectionItems, collectionId, <<>>),
                         collectionVariable,
                         Get(state.collectionFields, collectionId, <<>>),
                         shuffle),
                       layer, activeCollectionId, state, shuffle)
                ELSE RenderChildren(layer.children, collectionItemData,
                                    activeCollectionId, state, shuffle)]>>

\* root.innerHTML for an empty layer list (line 557)
NoLayersPlaceholder ==
  [Element("div") EXCEPT
     !.attributes = << <<"style", "padding: 40px; text-align: center; color: #9ca3af;">> >>,
     !.textContent = "No layers to display"]

\* The children of the root element after render().
render(state, shuffle) ==
  IF Len(state.layers) = 0 THEN <<NoLayersPlaceholder>>
  ELSE RenderChildren(state.layers, NoItemData, NULL, state, shuffle)


(***************************************************************************)
(* Specification SpecRenderer: the renderer receiving host messages.       *)
(* Modelled handlers: UPDATE_LAYERS, UPDATE_BREAKPOINT, UPDATE_UI_STATE,   *)
(* ENABLE_EDIT_MODE, the height timer and the window's resize event.  The  *)
(* mutation observer's callback is a microtask: it runs when the handler   *)
(* that changed the root returns, before any other task, and so belongs to *)
(* the handler's step.                                                     *)
(***************************************************************************)
MaxItems == 2

MaxTimers == 1

\* A layer with every optional member absent.
Layer(id, name) ==
  [id |-> id, name |-> name,
   settings |-> [tag |-> NULL, hidden |-> FALSE, id |-> NULL,
                 customAttributes |-> <<>>, linkSettings |-> NoLinkSettings],
   classes |-> <<>>, text |-> NoText, content |-> NULL,
   variables |-> [collection |-> NoCollection, text |-> NoInlineContent],
   collection |-> NoCollection,
   children |-> <<>>, formattable |-> FALSE, url |-> NULL, alt |-> NULL]

CollectionVariable(id, sortBy, sortOrder) ==
  [defined |-> TRUE, id |-> id, sort_by |-> sortBy, sort_order |-> sortOrder]

\* Sample records of collection c1; record r3 has no value for field f1.
Records ==
  { [id |-> "r1", manual_order |-> 2,
     values |-> << <<"f1", "beta">>, <<"f2", "10">> >>],
    [id |-> "r2", manual_order |-> 0,
     values |-> << <<"f1", "alpha">>, <<"f2", "9">> >>],
    [id |-> "r3", manual_order |-> 1,
     values |-> << <<"f1", NULL>>, <<"f2", "100">> >>] }

\* The lists of distinct records of at most MaxItems records.
ItemLists ==
  {l \in ListsUpTo(Records, MaxItems) :
     \A i, j \in 1..Len(l) : i # j => l[i] # l[j]}

\* <<sort_by, sort_order>> of the bindings that are combined with every list
SortSpecs == { <<"none", NULL>>, <<"manual", NULL>> }

FieldsOfC1 == << [id |-> "f1", name |-> "Title"], [id |-> "f2", name |-> "Price"] >>

TitleLayer ==
  [Layer("title", "h2") EXCEPT !.text = FieldText("f1"), !.formattable = TRUE]

PriceLayer == [Layer("price", "span") EXCEPT !.text = FieldText("f2")]

CardLayer == [Layer("card", "div") EXCEPT !.children = <<PriceLayer>>]

SecretLayer ==
  [Layer("secret", "p") EXCEPT !.settings.hidden = TRUE, !.text = StringText("x")]

ListLayer(collectionVariable) ==
  [Layer("list", "div") EXCEPT
     !.classes = <<"flex", "md:grid", "hover:block">>,
     !.variables.collection = collectionVariable,
     !.children = <<TitleLayer, CardLayer, SecretLayer>>]

\* payload of UPDATE_LAYERS: a list bound to c1 with a sort specification
CollectionScene(sortSpec, items) ==
  [layers |-> <<ListLayer(CollectionVariable("c1", sortSpec[1], sortSpec[2]))>>,
   selectedLayerId |-> NULL, componentMap |-> <<>>, editingComponentId |-> NULL,
   collectionItems |-> << <<"c1", items>> >>,
   collectionFields |-> << <<"c1", FieldsOfC1>> >>]

AllRecords ==
  << CHOOSE r \in Records : r.id = "r1", CHOOSE r \in Records : r.id = "r2",
     CHOOSE r \in Records : r.id = "r3" >>

InlineLayer ==
  [Layer("inline", "p") EXCEPT
     !.variables.text =
        [defined |-> TRUE,
         data |-> "Hi " \o MarkerOpen \o "v1" \o MarkerClose \o "!"
                  \o MarkerOpen \o "v2" \o MarkerClose,
         variables |-> << <<"v1", FieldText("f1")>>, <<"v2", FieldText("f3")>> >>]]

\* a page without collection binding
PlainScene ==
  [layers |->
     << [Layer("page", "div") EXCEPT
           !.classes = <<"flex", "flex", "lg:p-[4px]", "hover:flex-col", "flex-row">>,
           !.children =
             << [Layer("heading", "h1") EXCEPT
                   !.text = StringText("Hello"),
                   !.settings.id = "hero",
                   !.settings.customAttributes = << <<"title", "t">> >>],
                [Layer("image", "img") EXCEPT !.url = "a.png"],
                [Layer("link", "a") EXCEPT
                   !.settings.linkSettings =
                      [defined |-> TRUE, href |-> NULL, target |-> "_blank",
                       rel |-> NULL],
                   !.text = StringText("More")],
                [Layer("tagged", "div") EXCEPT
                   !.settings.tag = "section", !.content = "legacy"],
                [Layer("stray", "p") EXCEPT
                   !.text = StringText("a<ycode-inline-variable id=1>x</ycode-inline-variable>b")],
                InlineLayer,
                Layer("unnamed", NULL) >>] >>,
   selectedLayerId |-> "heading", componentMap |-> <<>>,
   editingComponentId |-> NULL,
   collectionItems |-> <<>>, collectionFields |-> <<>>]

FixedScenes ==
  { \* no layers
    [layers |-> <<>>, selectedLayerId |-> NULL, componentMap |-> <<>>,
     editingComponentId |-> NULL, collectionItems |-> <<>>,
     collectionFields |-> <<>>],
    PlainScene,
    \* tokens of every breakpoint prefix the codec parses, for one property
    [PlainScene EXCEPT
       !.layers = <<[Layer("box", "div") EXCEPT
                       !.classes = <<"w-[10px]", "max-lg:w-[50px]", "lg:w-[100px]",
                                     "md:w-[70px]", "max-md:hover:w-[5px]">>]>>,
       !.selectedLayerId = NULL],
    \* a component is being edited
    [PlainScene EXCEPT !.selectedLayerId = "page", !.editingComponentId = "comp1",
                       !.componentMap = << <<"heading", "comp1">> >>],
    \* all records: in manual and in source order, without sort_by, shuffled,
    \* and sorted by field f2
    CollectionScene(<<"manual", NULL>>, AllRecords),
    CollectionScene(<<"none", NULL>>, AllRecords),
    CollectionScene(<<"random", NULL>>, AllRecords),
    CollectionScene(<<NULL, NULL>>, AllRecords),
    CollectionScene(<<"f2", NULL>>, AllRecords),
    CollectionScene(<<"f2", "desc">>, AllRecords),
    \* a manual order with a sort_order, which the manual branch ignores
    CollectionScene(<<"manual", "desc">>, AllRecords),
    \* a bound layer without children
    [CollectionScene(<<"manual", NULL>>, AllRecords) EXCEPT
       !.layers = <<[Layer("list", "ul") EXCEPT
                       !.variables.collection = CollectionVariable("c1", "manual", NULL),
                       !.text = StringText("empty")]>>],
    \* a binding without collection id
    [CollectionScene(<<"manual", NULL>>, AllRecords) EXCEPT
       !.layers = <<ListLayer(CollectionVariable(NULL, "manual", NULL))>>],
    \* a binding in layer.collection, an inline template in the repetition
    [CollectionScene(<<"f1", "asc">>, AllRecords) EXCEPT
       !.layers = <<[Layer("legacy", "div") EXCEPT
                       !.collection = CollectionVariable("c1", "f1", "asc"),
                       !.children = <<InlineLayer>>]>>],
    \* no records are supplied for the bound collection
    [CollectionScene(<<"manual", NULL>>, AllRecords) EXCEPT
       !.collectionItems = <<>>],
    \* the bound layer is hidden
    [CollectionScene(<<"manual", NULL>>, AllRecords) EXCEPT
       !.layers = <<[ListLayer(CollectionVariable("c1", "manual", NULL)) EXCEPT
                       !.settings.hidden = TRUE]>>] }

Payloads ==
  {CollectionScene(sortSpec, items) : sortSpec \in SortSpecs, items \in ItemLists}
  \cup FixedScenes

RendererUIStates == {"neutral", "hover"}

RECURSIVE AllLayers(_)
\* Every layer of a layer list, at any depth.
AllLayers(ls) ==
  IF ls = <<>> THEN {}
  ELSE {Head(ls)} \cup AllLayers(Head(ls).children) \cup AllLayers(Tail(ls))

\* The draws of Math.random that the next render can make: one choice per
\* position of the longest record list when some layer shuffles.
ShuffleChoices(state) ==
  LET lengths == {Len(state.collectionItems[i][2]) :
                    i \in 1..Len(state.collectionItems)}
      longest == IF lengths = {} THEN 0
                 ELSE CHOOSE n \in lengths : \A m \in lengths : m <= n
  IN  IF \E l \in AllLayers(state.layers) :
            CollectionVariableOf(l).sort_by = "random"
      THEN Shuffles(longest)
      ELSE Shuffles(0)

InitRenderer ==
  /\ RendererConstructed
  /\ classes = <<>>
  /\ call = NoCall
  /\ ret = NULL

\* The script's state variables that rendering reads.
RendererState ==
  [layers |-> layers, selectedLayerId |-> selectedLayerId, editMode |-> editMode,
   currentBreakpoint |-> currentBreakpoint, currentUIState |-> currentUIState,
   editingComponentId |-> editingComponentId, editingLayerId |-> editingLayerId,
   collectionItems |-> collectionItems, collectionFields |-> collectionFields]

RECURSIVE ElementAt(_, _)
\* The element at a path of child positions below the root.
ElementAt(elements, path) ==
  IF Len(path) = 1 THEN elements[path[1]]
  ELSE ElementAt(elements[path[1]].children, Tail(path))

\* The path of the parent of the element at path.
ParentPath(path) == SubSeq(path, 1, Len(path) - 1)

\* finishEditing of the session of the editor input at path (lines
\* 856-865): the message it posts.
TextChangeEnd(elements, path) ==
  Message("TEXT_CHANGE_END", ElementAt(elements, ParentPath(path)).layerId,
          ElementAt(elements, path).value)

\* Variant of render() that rebuilds the root and sets no timer.
RenderUnscheduled(state) ==
  /\ \E shuffle \in ShuffleChoices(state) : dom' = render(state, shuffle)
  /\ UNCHANGED heightTimers
  /\ posted' = IF dom # <<>> \/ dom' # <<>> THEN "CONTENT_HEIGHT" ELSE posted
  /\ activeElement' = <<>>
  /\ endedInputs' = {}
  /\ raised' = NULL
  /\ editingLayerId' = state.editingLayerId
  /\ emitted' = <<>>

\* render() in the state the handler has reached: the root is rebuilt and a
\* height report is scheduled with setTimeout; when nodes were removed or
\* added the mutation observer reports the height as the handler returns.
\* root.innerHTML = '' removes the editor inputs.  Whether the removal of
\* the focused input dispatches blur to it depends on the browser; where it
\* does, the input's blur listener, finishEditing, runs during the removal.
Render(state) ==
  /\ \E shuffle \in ShuffleChoices(state) : dom' = render(state, shuffle)
  /\ heightTimers' = heightTimers + 1
  /\ posted' = IF dom # <<>> \/ dom' # <<>> THEN "CONTENT_HEIGHT" ELSE posted
  /\ activeElement' = <<>>
  /\ endedInputs' = {}
  /\ raised' = NULL
  /\ \/ /\ editingLayerId' = state.editingLayerId
        /\ emitted' = <<>>
     \/ /\ activeElement # <<>>
        /\ editingLayerId' = NULL
        /\ emitted' = <<TextChangeEnd(dom, activeElement)>>

\* case 'UPDATE_LAYERS', for the payloads the host may send
ReceiveUpdateLayersOf(payloads) ==
  /\ heightTimers < MaxTimers
  /\ \E payload \in payloads :
       /\ layers' = payload.layers
       /\ selectedLayerId' = payload.selectedLayerId
       /\ componentMap' = payload.componentMap
       /\ editingComponentId' = payload.editingComponentId
       /\ collectionItems' = payload.collectionItems
       /\ collectionFields' = payload.collectionFields
       /\ Render([RendererState EXCEPT
                    !.layers = payload.layers,
                    !.selectedLayerId = payload.selectedLayerId,
                    !.editingComponentId = payload.editingComponentId,
                    !.collectionItems = payload.collectionItems,
                    !.collectionFields = payload.collectionFields])
  /\ UNCHANGED <<hoveredLayerId, editMode, currentBreakpoint,
                 currentUIState, mapperVars, builderVars>>

ReceiveUpdateLayers == ReceiveUpdateLayersOf(Payloads)

ReceiveUpdateBreakpoint ==
  /\ heightTimers < MaxTimers
  /\ \E breakpoint \in Breakpoints :
       /\ currentBreakpoint' = breakpoint
       /\ Render([RendererState EXCEPT !.currentBreakpoint = breakpoint])
  /\ UNCHANGED <<layers, selectedLayerId, hoveredLayerId,
                 editMode, currentUIState, componentMap, editingComponentId,
                 collectionItems, collectionFields, mapperVars, builderVars>>

ReceiveUpdateUIState ==
  /\ heightTimers < MaxTimers
  /\ \E uiState \in RendererUIStates :
       /\ currentUIState' = uiState
       /\ Render([RendererState EXCEPT !.currentUIState = uiState])
  /\ UNCHANGED <<layers, selectedLayerId, hoveredLayerId,
                 editMode, currentBreakpoint, componentMap, editingComponentId,
                 collectionItems, collectionFields, mapperVars, builderVars>>

ReceiveEnableEditMode ==
  /\ heightTimers < MaxTimers
  /\ \E enabled \in BOOLEAN :
       /\ editMode' = enabled
       /\ Render([RendererState EXCEPT !.editMode = enabled])
  /\ UNCHANGED <<layers, selectedLayerId, hoveredLayerId,
                 currentBreakpoint, currentUIState, componentMap,
                 editingComponentId, collectionItems, collectionFields,
                 mapperVars, builderVars>>

\* sendContentHeight(): posts CONTENT_HEIGHT; changes no renderer state.
sendContentHeight ==
  /\ posted' = "CONTENT_HEIGHT"
  /\ emitted' = <<>>
  /\ raised' = NULL
  /\ UNCHANGED <<layers, selectedLayerId, editingLayerId, hoveredLayerId,
                 editMode, currentBreakpoint, currentUIState, componentMap,
                 editingComponentId, collectionItems, collectionFields, dom,
                 activeElement, endedInputs, mapperVars, builderVars>>

\* A timer set by render() fires.
HeightTimerFires ==
  /\ heightTimers > 0
  /\ heightTimers' = heightTimers - 1
  /\ sendContentHeight

\* The window's resize event.
WindowResized ==
  /\ UNCHANGED heightTimers
  /\ sendContentHeight

\* classList.remove of both selection classes
DropSelectionTokens(tokens) ==
  SelectAt(tokens, {i \in 1..Len(tokens) :
                     tokens[i] \notin {"ycode-selected", "ycode-selected-purple"}})

\* The class attribute is set to the serialisation of the token set.
WithoutSelectionClass(classList) == DropSelectionTokens(Unique(classList))

RECURSIVE ClearSelection(_)
\* Lines 883-889: every element loses the selection classes.
ClearSelection(elements) ==
  [i \in 1..Len(elements) |->
     [elements[i] EXCEPT !.classList = WithoutSelectionClass(elements[i].classList),
                         !.children = ClearSelection(elements[i].children)]]

RECURSIVE FirstWithLayerId(_, _)
\* document.querySelector('[data-layer-id="ID"]'): the path of the first
\* element in document order with that layer id, <<>> when there is none.
FirstWithLayerId(elements, layerId) ==
  IF elements = <<>> THEN <<>>
  ELSE IF Head(elements).layerId = layerId THEN <<1>>
  ELSE IF FirstWithLayerId(Head(elements).children, layerId) # <<>>
  THEN <<1>> \o FirstWithLayerId(Head(elements).children, layerId)
  ELSE IF FirstWithLayerId(Tail(elements), layerId) = <<>> THEN <<>>
  ELSE <<Head(FirstWithLayerId(Tail(elements), layerId)) + 1>>
       \o Tail(FirstWithLayerId(Tail(elements), layerId))

RECURSIVE AddClassAt(_, _, _)
\* element.classList.add(token) for the element at path
AddClassAt(elements, path, token) ==
  [elements EXCEPT
     ![path[1]] =
        IF Len(path) = 1
        THEN [elements[path[1]] EXCEPT
                !.classList = ClassListAdd(elements[path[1]].classList, token)]
        ELSE [elements[path[1]] EXCEPT
                !.children = AddClassAt(elements[path[1]].children, Tail(path), token)]]

\* Lines 892-899 on the page cleared of the selection classes
MarkSelected(cleared, state) ==
  IF Truthy(state.selectedLayerId)
     /\ FirstWithLayerId(cleared, state.selectedLayerId) # <<>>
  THEN AddClassAt(cleared, FirstWithLayerId(cleared, state.selectedLayerId),
                  IF Truthy(state.editingComponentId)
                  THEN "ycode-selected-purple" ELSE "ycode-selected")
  ELSE cleared

\* updateSelection() (lines 881-901)
updateSelection(elements, state) == MarkSelected(ClearSelection(elements), state)

\* the layer ids of UPDATE_SELECTION payloads
SelectionIds == {NULL, "title", "heading"}

\* case 'UPDATE_SELECTION'.  A changed class attribute is a mutation the
\* observer reports, which posts the content height.
ReceiveUpdateSelection ==
  /\ \E layerId \in SelectionIds :
       /\ selectedLayerId' = layerId
       /\ dom' = updateSelection(dom, [RendererState EXCEPT !.selectedLayerId = layerId])
  /\ posted' = IF dom' # dom THEN "CONTENT_HEIGHT" ELSE posted
  /\ emitted' = <<>>
  /\ raised' = NULL
  /\ UNCHANGED <<layers, editingLayerId, hoveredLayerId, editMode,
                 currentBreakpoint, currentUIState, componentMap,
                 editingComponentId, collectionItems, collectionFields,
                 heightTimers, activeElement, endedInputs, mapperVars, builderVars>>

NextRenderer ==
  \/ ReceiveUpdateLayers
  \/ ReceiveUpdateBreakpoint
  \/ ReceiveUpdateUIState
  \/ ReceiveEnableEditMode
  \/ HeightTimerFires
  \/ WindowResized

SpecRenderer == InitRenderer /\ [][NextRenderer]_vars


(***************************************************************************)
(* Collection repetition                                                   *)
(***************************************************************************)

\* The text a record supplies for a field: '' for a missing or null value.
RecordText(record, fieldId) ==
  IF Get(record.values, fieldId, NULL) = NULL THEN ""
  ELSE Get(record.values, fieldId, NULL)

\* A visible layer with a collection binding that names a collection, and
\* with children.
IsBoundWithChildren(layer) ==
  /\ ~layer.settings.hidden
  /\ CollectionVariableOf(layer).defined
  /\ Truthy(CollectionVariableOf(layer).id)
  /\ Len(layer.children) > 0

VisibleChildren(layer) ==
  SelectAt(layer.children,
           {c \in 1..Len(layer.children) : ~layer.children[c].settings.hidden})

RECURSIVE Substituted(_, _, _)
\* element is the subtree of layer with the record's values in the places
\* that reference a field: the text of a field-bound leaf, and the markers of
\* the inline template of the sample layers.
Substituted(element, layer, record) ==
  /\ element.layerId = layer.id
  /\ element.itemId = NULL
  /\ (Len(layer.children) = 0 /\ layer.text.type = "field"
        => element.textContent = RecordText(record, layer.text.field_id))
  /\ (layer = InlineLayer
        => element.textContent = "Hi " \o RecordText(record, "f1") \o "!")
  /\ Len(element.children) = Len(VisibleChildren(layer))
  /\ \A c \in 1..Len(element.children) :
       Substituted(element.children[c], VisibleChildren(layer)[c], record)

\* wrapper is the wrapper node of the record: a div that is no layer's
\* element, carrying the record's id and the children subtree of the layer.
IsWrapperOf(wrapper, layer, record) ==
  /\ wrapper.tag = "div"
  /\ wrapper.layerId = NULL
  /\ wrapper.itemId = record.id
  /\ Len(wrapper.children) = Len(VisibleChildren(layer))
  /\ \A c \in 1..Len(wrapper.children) :
       Substituted(wrapper.children[c], VisibleChildren(layer)[c], record)

\* The children of element are the wrappers of the records, one per record,
\* in the order of the binding's sort mode.
Repeated(element, layer, records) ==
  /\ Len(element.children) = Len(records)
  /\ \A i \in 1..Len(records) :
       Cardinality({k \in 1..Len(element.children) :
                      IsWrapperOf(element.children[k], layer, records[i])}) = 1
  /\ CollectionVariableOf(layer).sort_by = "manual" =>
       \A k, m \in 1..Len(element.children) :
         \A i, j \in 1..Len(records) :
           /\ k < m
           /\ element.children[k].itemId = records[i].id
           /\ element.children[m].itemId = records[j].id
           => records[i].manual_order <= records[j].manual_order
  /\ CollectionVariableOf(layer).sort_by = "none" =>
       \A k \in 1..Len(element.children) :
         element.children[k].itemId = records[k].id

\* C10: rendering a visible layer that has a collection binding and children,
\* when the collection has N records, produces exactly N sibling wrapper
\* nodes under that layer's element, one per record, each containing the
\* children subtree with that record's field values substituted; with sort
\* mode 'manual' the wrappers are in ascending manual_order, and with 'none'
\* in source order.
C10_CollectionRepetition ==
  \A i \in 1..Len(layers) :
    IsBoundWithChildren(layers[i]) =>
      \E k \in 1..Len(dom) :
        /\ dom[k].layerId = layers[i].id
        /\ Repeated(dom[k], layers[i],
                    Get(collectionItems, CollectionVariableOf(layers[i]).id, <<>>))

\* Three records in the source order r1, r2, r3 with manual_order 2, 0, 1 are
\* rendered under the list in the order r2, r3, r1, with their titles.
C10_Witness ==
  /\ layers = <<ListLayer(CollectionVariable("c1", "manual", NULL))>>
  /\ Get(collectionItems, "c1", <<>>) = AllRecords
  /\ Len(dom) = 1
  /\ Len(dom[1].children) = 3
  /\ [k \in 1..3 |-> dom[1].children[k].itemId] = <<"r2", "r3", "r1">>
  /\ [k \in 1..3 |-> dom[1].children[k].children[1].textContent]
       = <<"alpha", "", "beta">>
  /\ [k \in 1..3 |-> dom[1].children[k].children[2].children[1].textContent]
       = <<"9", "100", "10">>


(***************************************************************************)
(* Specification SpecText: getText applied to inline-variable templates.   *)
(***************************************************************************)

MaxSegments == 3

TextSegment(text) == [kind |-> "text", text |-> text, id |-> NULL]

MarkerSegment(id) ==
  [kind |-> "marker", text |-> MarkerOpen \o id \o MarkerClose, id |-> id]

\* The pieces templates are made of: literal text and placeholder markers;
\* v1 and v2 are variables of the template, v9 is not.
Segments ==
  {TextSegment("Hi "), MarkerSegment("v1"), MarkerSegment("v2"), MarkerSegment("v9")}

RECURSIVE Join(_)
\* inlineContent.data of a template
Join(segments) ==
  IF segments = <<>> THEN "" ELSE Head(segments).text \o Join(Tail(segments))

\* inlineContent.variables
TemplateVariables == << <<"v1", FieldText("f1")>>, <<"v2", FieldText("f2")>> >>

TemplateLayer(segments) ==
  [Layer("inline", "p") EXCEPT
     !.variables.text = [defined |-> TRUE, data |-> Join(segments),
                         variables |-> TemplateVariables]]

\* collectionItemData: none, both values, a null and a missing value
TemplateData ==
  {NoItemData,
   ItemData(<< <<"f1", "Ann">>, <<"f2", "7">> >>),
   ItemData(<< <<"f1", NULL>> >>)}

\* <<collectionId, collectionFields>>
TemplateFields ==
  {<<"c1", << <<"c1", << [id |-> "f1", name |-> "Title"],
                        [id |-> "f2", name |-> "Price"] >> >> >> >>,
   <<"c1", << <<"c1", << [id |-> "f1", name |-> "Title"] >> >> >> >>,
   <<"c1", <<>> >>,
   <<NULL, << <<"c1", << [id |-> "f1", name |-> "Title"] >> >> >> >>}

InitText ==
  /\ RendererConstructed
  /\ classes = <<>>
  /\ call = NoCall
  /\ ret = NULL

CallGetText ==
  /\ call = NoCall
  /\ \E segments \in ListsUpTo(Segments, MaxSegments), data \in TemplateData,
        fields \in TemplateFields :
       /\ call' = [fn |-> "getText", segments |-> segments, data |-> data,
                   collectionId |-> fields[1], collectionFields |-> fields[2]]
       /\ ret' = getText(TemplateLayer(segments), data, fields[1],
                         [RendererState EXCEPT !.collectionFields = fields[2]])
  /\ UNCHANGED <<classes, rendererVars, builderVars>>

NextText == CallGetText

SpecText == InitText /\ [][NextText]_vars

\* The text a marker stands for: the record's value for the variable's field
\* when there is record data, the field is in the collection's field list and
\* the value is present; the empty string otherwise.
MarkerText(id, data, collectionId, fieldLists) ==
  IF /\ data.defined
     /\ \E v \in 1..Len(TemplateVariables) :
          /\ TemplateVariables[v][1] = id
          /\ \E l \in 1..Len(fieldLists) :
               /\ fieldLists[l][1] = collectionId
               /\ \E f \in 1..Len(fieldLists[l][2]) :
                    fieldLists[l][2][f].id = TemplateVariables[v][2].field_id
          /\ \E k \in 1..Len(data.values) :
               /\ data.values[k][1] = TemplateVariables[v][2].field_id
               /\ data.values[k][2] # NULL
  THEN LET v == CHOOSE v \in 1..Len(TemplateVariables) : TemplateVariables[v][1] = id
           k == CHOOSE k \in 1..Len(data.values) :
                  data.values[k][1] = TemplateVariables[v][2].field_id
       IN  data.values[k][2]
  ELSE ""

RECURSIVE ResolvedTemplate(_, _, _, _)
ResolvedTemplate(segments, data, collectionId, fieldLists) ==
  IF segments = <<>> THEN ""
  ELSE (IF Head(segments).kind = "text" THEN Head(segments).text
        ELSE MarkerText(Head(segments).id, data, collectionId, fieldLists))
       \o ResolvedTemplate(Tail(segments), data, collectionId, fieldLists)

\* C11: inline-variable resolution never leaves a placeholder marker in the
\* rendered text: each marker of the template is replaced by the bound
\* record's value for its field when the field is in the collection's field
\* list and the value is present, and by the empty string otherwise (field id
\* absent from the field list, value absent, unknown variable id, or no
\* record data at all); getText has a result for every template.
C11_PlaceholdersResolved ==
  call.fn = "getText" =>
    /\ ret = ResolvedTemplate(call.segments, call.data, call.collectionId,
                              call.collectionFields)
    /\ ~Includes(ret, "<ycode-inline-variable")

\* The field of v2 has a value in the record and is absent from the field
\* list: its marker is resolved to the empty string.
C11_Witness ==
  /\ call.fn = "getText"
  /\ call.segments = <<TextSegment("Hi "), MarkerSegment("v1"), MarkerSegment("v2")>>
  /\ call.data = ItemData(<< <<"f1", "Ann">>, <<"f2", "7">> >>)
  /\ call.collectionFields = << <<"c1", << [id |-> "f1", name |-> "Title"] >> >> >>
  /\ call.collectionId = "c1"
  /\ ret = "Hi Ann"


(***************************************************************************)
(* Effective class strings of the rendered elements                        *)
(***************************************************************************)

RECURSIVE AllElements(_)
\* Every element of a list of subtrees.
AllElements(elements) ==
  IF elements = <<>> THEN {}
  ELSE {Head(elements)} \cup AllElements(Head(elements).children)
       \cup AllElements(Tail(elements))

\* The classes the editor adds to an element on top of the layer's own.
EditorClasses == {"ycode-layer", "ycode-selected", "ycode-selected-purple"}

\* The token starts with a breakpoint prefix parseFullClass recognises.
HasBreakpointPrefix(token) ==
  \/ StartsWith(token, "max-md:") \/ StartsWith(token, "max-lg:")
  \/ StartsWith(token, "lg:") \/ StartsWith(token, "md:")

\* C12: at current breakpoint 'mobile', the effective class string of a layer
\* contains only tokens that carry no breakpoint prefix; a tablet-prefixed
\* token and a desktop-prefixed token for the same property are both dropped.
C12_MobileShowsBaseOnly ==
  currentBreakpoint = "mobile" =>
    \A element \in AllElements(dom) :
      \A i \in 1..Len(element.classList) :
        ~HasBreakpointPrefix(element.classList[i])


(***************************************************************************)
(* Specification SpecEditing: the renderer with the user's double-clicks   *)
(* and the events of the editor inputs.                                    *)
(***************************************************************************)

RECURSIVE Paths(_)
\* The paths of the elements of a list of subtrees.
Paths(elements) ==
  UNION {{<<i>>} \cup {<<i>> \o q : q \in Paths(elements[i].children)} :
           i \in 1..Len(elements)}

RECURSIVE ReplaceAt(_, _, _)
\* The list of subtrees with the element at path replaced.
ReplaceAt(elements, path, new) ==
  [elements EXCEPT
     ![path[1]] =
        IF Len(path) = 1 THEN new
        ELSE [elements[path[1]] EXCEPT
                !.children = ReplaceAt(elements[path[1]].children, Tail(path), new)]]

\* path is the path of an element in the subtree of the element at ancestor.
IsWithin(path, ancestor) ==
  Len(path) >= Len(ancestor) /\ SubSeq(path, 1, Len(ancestor)) = ancestor

\* The layer a listener's closure holds: the layer of the last render with
\* the element's data-layer-id.
LayerOf(element, state) ==
  CHOOSE layer \in AllLayers(state.layers) : layer.id = element.layerId

\* Resolution of a free identifier of the script against the window: an
\* element with that id makes it a property of the global object.
NamedAccess(elements, name) == \E element \in AllElements(elements) : element.id = name

\* The text typed into an editor input
EditorTexts == {"Edited"}

\* The editor input of startTextEditing (lines 838-841).
EditorInput(currentText) ==
  [Element("input") EXCEPT
     !.attributes = << <<"type", "text">> >>,
     !.classList = <<"ycode-text-editor">>,
     !.value = currentText,
     !.listeners = <<"blur", "keydown">>]

\* Lines 843-846: the element's content is replaced by the input.
WithEditor(element, input) ==
  [element EXCEPT
     !.textContent = "",
     !.children = <<input>>,
     !.classList = ClassListAdd(element.classList, "ycode-editing")]

\* startTextEditing(layerId, layer, element) for the element at path.  Line
\* 835 reads collectionItemData and activeCollectionId, which are no
\* variables of the script: the read raises a ReferenceError unless elements
\* with these ids make them properties of the window, in which case getText
\* receives the two elements.  An element has no property named like a
\* field id of the samples and is no key of collectionFields.
\* element.textContent = '' removes a focused input of an earlier session of
\* the element; the browser may dispatch blur to it (see Render).
startTextEditing(path, state) ==
  IF Truthy(editingLayerId)
  THEN /\ emitted' = <<>>
       /\ raised' = NULL
       /\ UNCHANGED <<editingLayerId, dom, posted, activeElement, endedInputs>>
  ELSE IF ~(NamedAccess(dom, "collectionItemData")
            /\ NamedAccess(dom, "activeCollectionId"))
  THEN /\ editingLayerId' = ElementAt(dom, path).layerId
       /\ raised' = "ReferenceError"
       /\ emitted' = <<>>
       /\ UNCHANGED <<dom, posted, activeElement, endedInputs>>
  ELSE /\ dom' = ReplaceAt(dom, path,
                   WithEditor(ElementAt(dom, path),
                              EditorInput(getText(LayerOf(ElementAt(dom, path), state),
                                                  ItemData(<<>>),
                                                  "[object HTMLElement]", state))))
       /\ activeElement' = path \o <<1>>
       /\ endedInputs' = {q \in endedInputs : ~IsWithin(q, path)}
       /\ posted' = "CONTENT_HEIGHT"
       /\ raised' = NULL
       /\ \/ /\ editingLayerId' = ElementAt(dom, path).layerId
             /\ emitted' = <<Message("TEXT_CHANGE_START",
                                     ElementAt(dom, path).layerId, NULL)>>
          \/ /\ activeElement # <<>>
             /\ editingLayerId' = NULL
             /\ emitted' = <<TextChangeEnd(dom, activeElement),
                             Message("TEXT_CHANGE_START",
                                     ElementAt(dom, path).layerId, NULL)>>

\* The user double-clicks an element that has a dblclick listener, or inside
\* it.  A double-click outside the focused editor input is preceded by the
\* clicks that take the focus from the input (EditorBlurred).
DoubleClick ==
  /\ \E path \in Paths(dom) :
       /\ InList("dblclick", ElementAt(dom, path).listeners)
       /\ activeElement = <<>> \/ ParentPath(activeElement) = path
       /\ startTextEditing(path, RendererState)
  /\ UNCHANGED <<layers, selectedLayerId, hoveredLayerId, editMode,
                 currentBreakpoint, currentUIState, componentMap,
                 editingComponentId, collectionItems, collectionFields,
                 heightTimers, mapperVars, builderVars>>

\* finishEditing (lines 856-865) for the focused editor input
finishEditing ==
  /\ editingLayerId' = NULL
  /\ emitted' = <<TextChangeEnd(dom, activeElement)>>
  /\ endedInputs' = endedInputs \cup {activeElement}
  /\ raised' = NULL
  /\ UNCHANGED <<layers, selectedLayerId, hoveredLayerId, editMode,
                 currentBreakpoint, currentUIState, componentMap,
                 editingComponentId, collectionItems, collectionFields,
                 dom, heightTimers, posted, mapperVars, builderVars>>

\* The focused editor input loses the focus: its blur listener runs.
EditorBlurred ==
  /\ activeElement # <<>>
  /\ activeElement' = <<>>
  /\ finishEditing

\* keydown with key 'Enter' in the focused editor input
EditorEnter ==
  /\ activeElement # <<>>
  /\ UNCHANGED activeElement
  /\ finishEditing

\* keydown with key 'Escape' in the focused editor input (lines 871-874)
EditorEscape ==
  /\ activeElement # <<>>
  /\ heightTimers < MaxTimers
  /\ Render([RendererState EXCEPT !.editingLayerId = NULL])
  /\ UNCHANGED <<layers, selectedLayerId, hoveredLayerId, editMode,
                 currentBreakpoint, currentUIState, componentMap,
                 editingComponentId, collectionItems, collectionFields,
                 mapperVars, builderVars>>

\* The user types into the focused editor input.
EditorTyped ==
  /\ activeElement # <<>>
  /\ \E text \in EditorTexts :
       dom' = ReplaceAt(dom, activeElement,
                        [ElementAt(dom, activeElement) EXCEPT !.value = text])
  /\ emitted' = <<>>
  /\ raised' = NULL
  /\ UNCHANGED <<layers, selectedLayerId, editingLayerId, hoveredLayerId,
                 editMode, currentBreakpoint, currentUIState, componentMap,
                 editingComponentId, collectionItems, collectionFields,
                 heightTimers, posted, activeElement, endedInputs, mapperVars, builderVars>>

\* The user puts the focus into an editor input that is still in the page.
EditorFocused ==
  /\ activeElement = <<>>
  /\ \E path \in Paths(dom) :
       /\ ElementAt(dom, path).tag = "input"
       /\ activeElement' = path
  /\ emitted' = <<>>
  /\ raised' = NULL
  /\ UNCHANGED <<layers, selectedLayerId, editingLayerId, hoveredLayerId,
                 editMode, currentBreakpoint, currentUIState, componentMap,
                 editingComponentId, collectionItems, collectionFields,
                 dom, heightTimers, posted, endedInputs, mapperVars, builderVars>>

\* a page of two text layers
TextScene ==
  [layers |->
     << [Layer("t1", "h2") EXCEPT !.text = StringText("Hello"), !.formattable = TRUE],
        [Layer("t2", "p") EXCEPT !.text = StringText("World"), !.formattable = TRUE] >>,
   selectedLayerId |-> NULL, componentMap |-> <<>>,
   editingComponentId |-> NULL,
   collectionItems |-> <<>>, collectionFields |-> <<>>]

\* the page with custom ids that are the free identifiers of line 835
NamedTextScene ==
  [TextScene EXCEPT
     !.layers[1].settings.id = "collectionItemData",
     !.layers[2].settings.id = "activeCollectionId"]

EditingPayloads ==
  {TextScene, NamedTextScene,
   CollectionScene(<<"manual", NULL>>, SubSeq(AllRecords, 1, 2))}

ReceiveEditingLayers == ReceiveUpdateLayersOf(EditingPayloads)

NextEditing ==
  \/ ReceiveEditingLayers
  \/ ReceiveUpdateSelection
  \/ ReceiveUpdateBreakpoint
  \/ ReceiveUpdateUIState
  \/ ReceiveEnableEditMode
  \/ HeightTimerFires
  \/ WindowResized
  \/ DoubleClick
  \/ EditorBlurred
  \/ EditorEnter
  \/ EditorEscape
  \/ EditorTyped
  \/ EditorFocused

SpecEditing == InitRenderer /\ [][NextEditing]_vars

\* The types of the messages the last step sent to the host
EmittedTypes(messages) == {messages[i].type : i \in 1..Len(messages)}

(***************************************************************************)
(* C14: READY is sent to the host once, when the script is constructed,    *)
(* and no later step (a received message, a render, a timer, a user        *)
(* event) sends it again: no step emits a READY message, and the last      *)
(* posted message becomes no READY.                                        *)
(***************************************************************************)
C14_ReadyExactlyOnce ==
  /\ emitted = <<Message("READY", NULL, NULL)>>
  /\ [][/\ "READY" \notin EmittedTypes(emitted')
        /\ posted' = "READY" => posted = "READY" /\ emitted' = <<>>]_vars

\* after a render and a committed edit session, READY was sent only at
\* construction
C14_Witness ==
  /\ dom # <<>>
  /\ posted = "CONTENT_HEIGHT"
  /\ EmittedTypes(emitted) = {"TEXT_CHANGE_END"}

\* The set of the messages the last step sent to the host
EmittedSet(messages) == {messages[i] : i \in 1..Len(messages)}

\* The element at path has a dblclick listener and shows its rendered text.
ShowsText(elements, path) ==
  /\ InList("dblclick", ElementAt(elements, path).listeners)
  /\ ElementAt(elements, path).children = <<>>

\* The element at path of the page before was turned into the editor of a
\* session of its layer by the step.
EnteredEditing(path) ==
  /\ editingLayerId' = ElementAt(dom, path).layerId
  /\ ElementAt(dom', path).children
       = <<EditorInput(ElementAt(dom, path).textContent)>>
  /\ Message("TEXT_CHANGE_START", ElementAt(dom, path).layerId, NULL)
       \in EmittedSet(emitted')

(***************************************************************************)
(* C15: in edit mode with no edit session active, a double-click on the    *)
(* element of a text-formattable layer raises no exception, makes the      *)
(* layer the editing layer, replaces the element's content by an editor    *)
(* input holding the text the element showed, and sends TEXT_CHANGE_START  *)
(* with the layer's id.                                                    *)
(***************************************************************************)
C15_DoubleClickEntersEditing ==
  [][(/\ DoubleClick
      /\ editMode
      /\ ~Truthy(editingLayerId)
      /\ \A path \in Paths(dom) : ElementAt(dom, path).tag # "input")
     => /\ raised' = NULL
        /\ \E path \in Paths(dom) : ShowsText(dom, path) /\ EnteredEditing(path)]_vars

\* The editor inputs in the page whose session has not ended: no
\* finishEditing has run for them.
LiveInputs(elements) ==
  {path \in Paths(elements) : ElementAt(elements, path).tag = "input"} \ endedInputs

\* A text-edit session is active: a layer is marked as being edited, or a
\* started session has not ended.
SessionActive == Truthy(editingLayerId) \/ LiveInputs(dom) # {}

(***************************************************************************)
(* C13: text-edit sessions are exclusive.  In every reachable state at     *)
(* most one editor input has a session that has not ended, and a           *)
(* double-click on a formattable layer while a session is active changes   *)
(* neither the page nor the editing layer nor the focus and sends no       *)
(* TEXT_CHANGE_START: a session starts only when none is active.           *)
(***************************************************************************)
C13_ExclusiveSessions ==
  /\ [](Cardinality(LiveInputs(dom)) <= 1)
  /\ [][DoubleClick /\ SessionActive
          => /\ UNCHANGED <<dom, editingLayerId, activeElement>>
             /\ "TEXT_CHANGE_START" \notin EmittedTypes(emitted')]_vars

\* The elements of the layer in the page that hold an editor input.
EditorsOf(layerId) ==
  {e \in AllElements(dom) :
     /\ e.layerId = layerId
     /\ \E c \in 1..Len(e.children) :
          e.children[c].tag = "input" /\ "ycode-text-editor" \in Range(e.children[c].classList)}

(***************************************************************************)
(* C29: the editing marker and the page agree.  Whenever editingLayerId    *)
(* is non-null, the editor input of that layer is present in the rendered  *)
(* tree: no sequence of double-clicks, key events and host messages (a     *)
(* re-render during a session, a failure while starting one) leaves        *)
(* editingLayerId set with no editor.                                      *)
(***************************************************************************)
C29_EditingLayerHasEditor ==
  editingLayerId # NULL => EditorsOf(editingLayerId) # {}

(***************************************************************************)
(* C16: committing a session by blur or Enter ends it and sends one        *)
(* TEXT_CHANGE_END with the layer's id and the text of the editor input,   *)
(* and no step sends a TEXT_CHANGE_END for an input whose session has      *)
(* already ended (Enter and then the blur of the same input).              *)
(***************************************************************************)
C16_CommitEmitsOneEnd ==
  [][/\ EditorBlurred \/ EditorEnter
          => /\ emitted' = <<TextChangeEnd(dom, activeElement)>>
             /\ editingLayerId' = NULL
     /\ "TEXT_CHANGE_END" \in EmittedTypes(emitted')
          => activeElement \notin endedInputs]_vars

(***************************************************************************)
(* C17: Escape in the editor input of a session that has not ended         *)
(* cancels it: afterwards no layer is being edited, the page is the        *)
(* rendering of the unchanged layer data (no editor input is left), and    *)
(* no TEXT_CHANGE_END is sent.                                             *)
(***************************************************************************)
C17_EscapeCancels ==
  [][EditorEscape /\ activeElement \in LiveInputs(dom)
       => /\ editingLayerId' = NULL
          /\ UNCHANGED layers
          /\ \E shuffle \in ShuffleChoices(RendererState) :
               dom' = render(RendererState, shuffle)
          /\ LiveInputs(dom') = {}
          /\ "TEXT_CHANGE_END" \notin EmittedTypes(emitted')]_vars

(***************************************************************************)
(* Specification SpecSelection: the message handlers of the renderer,      *)
(* UPDATE_SELECTION included, on pages with and without repeated layers.   *)
(***************************************************************************)

\* a page with a selected layer, the page while a component is edited,
\* repeated layers in a fixed and in a shuffled order, and no layers
SelectionPayloads ==
  {PlainScene,
   [PlainScene EXCEPT !.selectedLayerId = "page", !.editingComponentId = "comp1",
                      !.componentMap = << <<"heading", "comp1">> >>],
   CollectionScene(<<"manual", NULL>>, AllRecords),
   CollectionScene(<<"random", NULL>>, SubSeq(AllRecords, 1, 2)),
   [PlainScene EXCEPT !.layers = <<>>, !.selectedLayerId = NULL]}

ReceiveSelectionLayers == ReceiveUpdateLayersOf(SelectionPayloads)

NextSelection ==
  \/ ReceiveSelectionLayers
  \/ ReceiveUpdateSelection
  \/ ReceiveUpdateBreakpoint
  \/ ReceiveUpdateUIState
  \/ ReceiveEnableEditMode
  \/ HeightTimerFires
  \/ WindowResized

SpecSelection == InitRenderer /\ [][NextSelection]_vars

RECURSIVE Shape(_)
\* The nodes of a page: tag and layer of every element, in place.
Shape(elements) ==
  [i \in 1..Len(elements) |->
     [tag |-> elements[i].tag, layerId |-> elements[i].layerId,
      itemId |-> elements[i].itemId, children |-> Shape(elements[i].children)]]

\* The elements that carry a selection class, with the class.
Marked(elements) ==
  {<<path, token>> \in Paths(elements) \X {"ycode-selected", "ycode-selected-purple"} :
     InList(token, ElementAt(elements, path).classList)}

\* The page is what render() made of the state with these draws, up to the
\* selection classes.
IsRendering(elements, state, shuffle) ==
  ClearSelection(elements) = ClearSelection(render(state, shuffle))

(***************************************************************************)
(* C18: UPDATE_SELECTION {layerId} creates and removes no node, and on a   *)
(* rendered page the elements that carry a selection class afterwards are  *)
(* exactly those a full render with selectedLayerId = layerId marks, every *)
(* repetition of a layer rendered once per collection record included.     *)
(***************************************************************************)
C18_SelectionToggleEqualsRender ==
  [][ReceiveUpdateSelection
       => /\ Shape(dom') = Shape(dom)
          /\ \A shuffle \in ShuffleChoices(RendererState) :
               IsRendering(dom, RendererState, shuffle)
                 => Marked(dom')
                      = Marked(render([RendererState EXCEPT
                                         !.selectedLayerId = selectedLayerId'],
                                      shuffle))]_vars

(***************************************************************************)
(* Specification SpecClasses: getClassesString applied to class lists of   *)
(* up to MaxClasses tokens, at every breakpoint and in the UI states       *)
(* neutral, hover, focus and current.                                      *)
(***************************************************************************)

\* One utility with every breakpoint prefix and state prefix the codec or
\* the renderer knows, a second value of the same property, and a token of
\* the state 'current'.
RendererTokens ==
  {breakpointPrefix \o statePrefix \o "p-[1px]" :
     breakpointPrefix \in {"", "max-lg:", "max-md:", "lg:", "md:"},
     statePrefix \in {"", "hover:", "focus:"}}
  \cup {"p-[9px]", "visited:p-[1px]"}

ClassUIStates == {"neutral", "hover", "focus", "current"}

InitClasses ==
  /\ RendererConstructed
  /\ classes \in ListsUpTo(RendererTokens, MaxClasses)
  /\ call = NoCall
  /\ ret = NULL

CallGetClassesString ==
  /\ call = NoCall
  /\ \E breakpoint \in Breakpoints, uiState \in ClassUIStates :
       /\ call' = [fn |-> "getClassesString", breakpoint |-> breakpoint,
                   uiState |-> uiState]
       /\ ret' = getClassesString([Layer("box", "div") EXCEPT !.classes = classes],
                                  [RendererState EXCEPT
                                     !.currentBreakpoint = breakpoint,
                                     !.currentUIState = uiState])
  /\ UNCHANGED <<classes, rendererVars, builderVars>>

NextClasses == CallGetClassesString

SpecClasses == InitClasses /\ [][NextClasses]_vars

\* The tokens of the list that carry no state prefix, in order.
WithoutStateTokens(tokens) ==
  SelectAt(tokens, {i \in 1..Len(tokens) : ~CarriesState(tokens[i])})

(***************************************************************************)
(* C19: in the neutral UI state the effective class string holds no token  *)
(* with a state prefix, bare or after a breakpoint prefix, and holds every *)
(* token without state prefix that passed the breakpoint filter, in order. *)
(***************************************************************************)
C19_NeutralDropsStateTokens ==
  (call.fn = "getClassesString" /\ call.uiState = "neutral")
    => /\ \A i \in 1..Len(ret) : ~CarriesState(ret[i])
       /\ ret = WithoutStateTokens(filterClassesByBreakpoint(classes, call.breakpoint))

\* a list with a compound of the desktop-first grammar and an unprefixed
\* token, at the breakpoint where both pass the filter
C19_Witness ==
  /\ call.fn = "getClassesString"
  /\ call.uiState = "neutral"
  /\ call.breakpoint = "desktop"
  /\ classes = <<"max-lg:hover:p-[1px]", "p-[9px]">>
  /\ ret = <<"p-[9px]">>

\* The token without its state prefix, the breakpoint prefix kept.
StateStripped(token, statePrefix) ==
  BreakpointPrefixOf(token)
    \o Slice(token, Len(BreakpointPrefixOf(token)) + Len(statePrefix))

\* The token carries this state prefix, bare or after a breakpoint prefix.
CarriesStateOf(token, statePrefix) ==
  StartsWith(Slice(token, Len(BreakpointPrefixOf(token))), statePrefix)

(***************************************************************************)
(* C20: in a non-neutral UI state s the effective class string holds no    *)
(* token that still carries a state prefix, bare or after a breakpoint     *)
(* prefix; every token of state s that passed the breakpoint filter is     *)
(* there with the state prefix stripped.                                   *)
(***************************************************************************)
C20_StateActivated ==
  (call.fn = "getClassesString" /\ call.uiState # "neutral")
    => /\ \A i \in 1..Len(ret) : ~CarriesState(ret[i])
       /\ \A token \in Range(filterClassesByBreakpoint(classes, call.breakpoint)) :
            CarriesStateOf(token, getUIStatePrefix(call.uiState))
              => StateStripped(token, getUIStatePrefix(call.uiState)) \in Range(ret)

(***************************************************************************)
(* Specification SpecCollision: activateStateClasses applied to class      *)
(* lists of up to MaxClasses tokens of colliding and of unrelated          *)
(* property families, in the states hover and focus.                       *)
(***************************************************************************)

\* Default tokens without a value suffix and their valued siblings, the
\* overloaded text- and border- families, one utility in two scopes, and
\* the hover and focus forms of some of them.
CollisionTokens ==
  {"border", "border-2", "border-t", "border-t-2", "rounded", "rounded-[4px]",
   "shadow", "shadow-lg", "text-[1.5rem]", "text-[#ff0000]", "border-[#ff0000]",
   "p-[1px]", "max-lg:p-[1px]",
   "hover:border", "hover:border-2", "hover:border-t-2", "hover:rounded-[4px]",
   "hover:shadow-lg", "hover:text-[#ff0000]", "hover:border-[#ff0000]",
   "hover:p-[9px]", "max-lg:hover:p-[9px]", "focus:p-[9px]"}

ActiveUIStates == {"hover", "focus"}

InitCollision ==
  /\ RendererConstructed
  /\ classes \in ListsUpTo(CollisionTokens, MaxClasses)
  /\ call = NoCall
  /\ ret = NULL

CallActivateStateClasses ==
  /\ call = NoCall
  /\ \E uiState \in ActiveUIStates :
       /\ call' = [fn |-> "activateStateClasses", uiState |-> uiState]
       /\ ret' = activateStateClasses(classes, uiState)
  /\ UNCHANGED <<classes, rendererVars, builderVars>>

NextCollision == CallActivateStateClasses

SpecCollision == InitCollision /\ [][NextCollision]_vars

\* The token without breakpoint and state prefix.
BaseOf(token) == parseFullClass(token).baseClass

\* The design properties the codec says the token's utility affects.
AffectedBy(token) == Range(getAffectedProperties(BaseOf(token)))

\* The token is of state s: it carries the state prefix of s.
IsOfState(token, uiState) ==
  uiState # "neutral" /\ CarriesStateOf(token, getUIStatePrefix(uiState))

\* The tokens of the list that activation in state s turns into, by the
\* claim: the tokens of s without their state prefix.
ActivatedForms(tokens, uiState) ==
  {StateStripped(tokens[i], getUIStatePrefix(uiState)) :
     i \in {k \in 1..Len(tokens) : IsOfState(tokens[k], uiState)}}

\* Token a of state s and neutral token n implement the same property
\* family in the same breakpoint scope.
SameFamily(a, n) ==
  /\ BreakpointPrefixOf(a) = BreakpointPrefixOf(n)
  /\ AffectedBy(a) \cap AffectedBy(n) # {}

(***************************************************************************)
(* C21: under a non-neutral state s, when the list holds a token of s and  *)
(* a neutral token of the same property family in the same breakpoint      *)
(* scope, the effective class string holds the activated token and not     *)
(* the neutral one (unless the neutral token is itself the activated form  *)
(* of a token of s).                                                       *)
(***************************************************************************)
C21_ActivatedWinsOverNeutral ==
  call.fn = "activateStateClasses"
    => \A i, j \in 1..Len(classes) :
         (/\ IsOfState(classes[i], call.uiState)
          /\ ~CarriesState(classes[j])
          /\ SameFamily(classes[i], classes[j]))
           => /\ StateStripped(classes[i], getUIStatePrefix(call.uiState)) \in Range(ret)
              /\ \/ classes[j] \notin Range(ret)
                 \/ classes[j] \in ActivatedForms(classes, call.uiState)

(***************************************************************************)
(* C25: the renderer's collision grouping mirrors the codec's.  Under a    *)
(* non-neutral state a neutral token is missing from the effective class   *)
(* string only if some token of the state in the same breakpoint scope     *)
(* affects a design property that the neutral token affects, by            *)
(* getAffectedProperties: a font size survives the activation of a text    *)
(* colour, a border width the activation of a border colour.               *)
(***************************************************************************)
C25_SuppressedOnlyOnSharedProperty ==
  call.fn = "activateStateClasses"
    => \A j \in 1..Len(classes) :
         (~CarriesState(classes[j]) /\ classes[j] \notin Range(ret))
           => \E i \in 1..Len(classes) :
                /\ IsOfState(classes[i], call.uiState)
                /\ SameFamily(classes[i], classes[j])

(***************************************************************************)
(* Specification SpecColor: isColorValue applied to numbers, numbers with  *)
(* a unit and colours, and the classification of text-[value].             *)
(***************************************************************************)

\* numbers of one to eight digits, with a fraction, with a sign
NumberBodies ==
  {"1", "10", "100", "1000", "12345", "123456", "1234567", "12345678",
   "1.5", ".5", "0.5", "100.25", "-100", "-1.5"}

\* the numbers, alone and followed by each unit of the unit regex
MeasureValues == {body \o unit : body \in NumberBodies, unit \in SizeUnits \cup {""}}

ColourValues ==
  {"#ff0000", "ff0000", "#fff", "abc", "#ff000080", "rgb(0,0,0)", "rgba (0,0,0,1)",
   "hsl(0,0%,0%)", "red", "Transparent"}

ColorInputs == MeasureValues \cup ColourValues \cup {"auto", "1px2", "px"}

InitColor ==
  /\ RendererConstructed
  /\ classes = <<>>
  /\ call = NoCall
  /\ ret = NULL

CallIsColorValue ==
  /\ call = NoCall
  /\ \E value \in ColorInputs :
       /\ call' = [fn |-> "isColorValue", value |-> value]
       /\ ret' = isColorValue(value)
  /\ UNCHANGED <<classes, rendererVars, builderVars>>

\* getAffectedProperties of the arbitrary text class of the value
CallClassifyText ==
  /\ call = NoCall
  /\ \E value \in ColorInputs :
       /\ call' = [fn |-> "getAffectedProperties", value |-> value]
       /\ ret' = getAffectedProperties("text-[" \o value \o "]")
  /\ UNCHANGED <<classes, rendererVars, builderVars>>

NextColor ==
  \/ CallIsColorValue
  \/ CallClassifyText

SpecColor == InitColor /\ [][NextColor]_vars

\* The value is a pure number or a number followed by a unit.
IsMeasure(value) == IsPlainNumber(value) \/ IsNumberWithUnit(value)

(***************************************************************************)
(* C22: isColorValue is false for every pure number and every number       *)
(* followed by a unit, digit strings of length 3, 6 and 8 included, and    *)
(* text-[value] of such a value is a font size.                            *)
(***************************************************************************)
C22_NumbersAreNotColours ==
  /\ (call.fn = "isColorValue" /\ IsMeasure(call.value)) => ret = FALSE
  /\ (call.fn = "getAffectedProperties" /\ IsMeasure(call.value))
       => ret = <<"fontSize">>

(***************************************************************************)
(* Specification SpecUnknown: the codec's functions called with property   *)
(* names that are no keys of the pattern registry.                         *)
(***************************************************************************)

UnknownProperties == {"rotate", "unknown"} \cup ObjectPrototypeNames

UnknownTokens ==
  {"w-[100px]", "max-lg:w-[50px]", "max-md:w-[20px]", "hover:w-[70px]",
   "max-lg:hover:w-[60px]", "text-[#ff0000]"}

\* Does removeConflictingClasses call pattern.test?  The filter callback
\* calls it first, for every class.
RemoveCallsTest(cs, property) ==
  getConflictingClassPattern(property) /\ cs # <<>>

\* Does removeConflictingClassesForBreakpoint call pattern.test?  For a
\* class of the breakpoint, through shouldIncludeClassForProperty.
RemoveForBreakpointCallsTest(cs, property, breakpoint) ==
  /\ getConflictingClassPattern(property)
  /\ \E i \in 1..Len(cs) : parseBreakpointClass(cs[i]).breakpoint = breakpoint

\* Does setBreakpointClass call pattern.test?  For a class of the
\* breakpoint and UI state.
SetCallsTest(cs, property, breakpoint, uiState) ==
  /\ getConflictingClassPattern(property)
  /\ \E i \in 1..Len(cs) :
        /\ parseFullClass(cs[i]).breakpoint = breakpoint
        /\ parseFullClass(cs[i]).uiState = uiState

\* Does one iteration of the loop of getInheritedValue call pattern.test?
InheritedAtCallsTest(cs, breakpoint, uiState) ==
  \E i \in 1..Len(cs) :
     \/ /\ uiState # "neutral"
        /\ IF getBreakpointPrefix(breakpoint) # ""
           THEN StartsWith(cs[i], getBreakpointPrefix(breakpoint)
                                    \o getUIStatePrefix(uiState))
           ELSE StartsWith(cs[i], getUIStatePrefix(uiState))
     \/ IF getBreakpointPrefix(breakpoint) # ""
        THEN /\ StartsWith(cs[i], getBreakpointPrefix(breakpoint))
             /\ ~HasStatePrefix(Slice(cs[i], Len(getBreakpointPrefix(breakpoint))))
        ELSE ~HasDesktopFirstOrStatePrefix(cs[i])

InheritedCallsTest(cs, property, atBreakpoint, uiState) ==
  /\ getConflictingClassPattern(property)
  /\ \E k \in 1..Len(inheritanceChain(atBreakpoint)) :
        InheritedAtCallsTest(cs, inheritanceChain(atBreakpoint)[k], uiState)

\* The exception of a call: a TypeError when pattern.test is called on a
\* value that is no RegExp.
Raised(callsTest, property) ==
  IF callsTest /\ ~IsRegExp(property) THEN "TypeError" ELSE NULL

InitUnknown ==
  /\ RendererConstructed
  /\ classes \in ListsUpTo(UnknownTokens, MaxClasses)
  /\ call = NoCall
  /\ ret = NULL

\* What a call leaves of the variables: its return value, or the exception.
Returns(callsTest, property, value) ==
  /\ raised' = Raised(callsTest, property)
  /\ ret' = IF Raised(callsTest, property) = NULL THEN value ELSE NULL
  /\ UNCHANGED <<classes, layers, selectedLayerId, editingLayerId, hoveredLayerId,
                 editMode, currentBreakpoint, currentUIState, componentMap,
                 editingComponentId, collectionItems, collectionFields,
                 dom, heightTimers, posted, emitted, activeElement, endedInputs,
                 builderVars>>

CallUnknownPattern ==
  /\ call = NoCall
  /\ \E property \in UnknownProperties :
       /\ call' = [fn |-> "getConflictingClassPattern", property |-> property]
       /\ Returns(FALSE, property, LookupPattern(property))

CallUnknownRemove ==
  /\ call = NoCall
  /\ \E property \in UnknownProperties :
       /\ call' = [fn |-> "removeConflictingClasses", property |-> property]
       /\ Returns(RemoveCallsTest(classes, property), property,
                  removeConflictingClasses(classes, property))

CallUnknownRemoveForBreakpoint ==
  /\ call = NoCall
  /\ \E property \in UnknownProperties, breakpoint \in Breakpoints :
       /\ call' = [fn |-> "removeConflictingClassesForBreakpoint",
                   property |-> property]
       /\ Returns(RemoveForBreakpointCallsTest(classes, property, breakpoint),
                  property,
                  removeConflictingClassesForBreakpoint(classes, property, breakpoint))

CallUnknownSet ==
  /\ call = NoCall
  /\ \E property \in UnknownProperties, breakpoint \in Breakpoints,
        uiState \in {"neutral", "hover"}, newClass \in {NULL, "w-[9px]"} :
       /\ call' = [fn |-> "setBreakpointClass", property |-> property]
       /\ Returns(SetCallsTest(classes, property, breakpoint, uiState), property,
                  setBreakpointClass(classes, property, newClass, breakpoint, uiState))

CallUnknownInherited ==
  /\ call = NoCall
  /\ \E property \in UnknownProperties, breakpoint \in Breakpoints,
        uiState \in {"neutral", "hover"} :
       /\ call' = [fn |-> "getInheritedValue", property |-> property]
       /\ Returns(InheritedCallsTest(classes, property, breakpoint, uiState), property,
                  getInheritedValue(classes, property, breakpoint, uiState))

CallUnknownPropertyToClass ==
  /\ call = NoCall
  /\ \E category \in {"layout", "spacing", "unknown"},
        property \in UnknownProperties, value \in {"10px", "flex"} :
       /\ call' = [fn |-> "propertyToClass", property |-> property]
       /\ Returns(FALSE, property, propertyToClass(category, property, value))

NextUnknown ==
  \/ CallUnknownPattern
  \/ CallUnknownRemove
  \/ CallUnknownRemoveForBreakpoint
  \/ CallUnknownSet
  \/ CallUnknownInherited
  \/ CallUnknownPropertyToClass

SpecUnknown == InitUnknown /\ [][NextUnknown]_vars

(***************************************************************************)
(* C23: for a property name that is no key of the pattern registry no      *)
(* function raises; getConflictingClassPattern returns null, the three     *)
(* list functions return the token list unchanged, getInheritedValue       *)
(* returns {value: null, source: null} and propertyToClass returns null.   *)
(***************************************************************************)
C23_UnknownIsSilentNoOp ==
  call.fn # "none"
    => /\ raised = NULL
       /\ call.fn \in {"getConflictingClassPattern", "propertyToClass"} => ret = NULL
       /\ call.fn \in {"removeConflictingClasses", "setBreakpointClass",
                       "removeConflictingClassesForBreakpoint"} => ret = classes
       /\ call.fn = "getInheritedValue" => ret = NoValue

(***************************************************************************)
(* Specification SpecRoundTrip: a token is prefixed for a breakpoint and a *)
(* UI state and parsed back.                                               *)
(***************************************************************************)

BaseClasses ==
  {"w-[100px]", "flex", "hidden", "p-4", "text-[#ff0000]", "bg-[#ffffff]",
   "rounded-[4px]", "border-2"}

InitRoundTrip ==
  /\ RendererConstructed
  /\ \E t \in BaseClasses : classes = <<t>>
  /\ call = NoCall
  /\ ret = NULL

\* parseFullClass(getBreakpointPrefix(b) + getUIStatePrefix(s) + t)
CallParseFullClass ==
  /\ call = NoCall
  /\ \E breakpoint \in Breakpoints, uiState \in UIStates :
       LET className == getBreakpointPrefix(breakpoint)
                          \o getUIStatePrefix(uiState) \o classes[1]
       IN /\ call' = [fn |-> "parseFullClass", breakpoint |-> breakpoint,
                      uiState |-> uiState, className |-> className]
          /\ ret' = parseFullClass(className)
  /\ UNCHANGED <<classes, rendererVars, builderVars>>

\* parseBreakpointClass(addBreakpointPrefix(b, t))
CallParseBreakpointClass ==
  /\ call = NoCall
  /\ \E breakpoint \in Breakpoints :
       LET className == addBreakpointPrefix(breakpoint, classes[1])
       IN /\ call' = [fn |-> "parseBreakpointClass", breakpoint |-> breakpoint,
                      className |-> className]
          /\ ret' = parseBreakpointClass(className)
  /\ UNCHANGED <<classes, rendererVars, builderVars>>

NextRoundTrip ==
  \/ CallParseFullClass
  \/ CallParseBreakpointClass

SpecRoundTrip == InitRoundTrip /\ [][NextRoundTrip]_vars

\* The prefixes the claim gives for the three breakpoints.
DesktopFirstPrefix(breakpoint) ==
  CASE breakpoint = "desktop" -> ""
    [] breakpoint = "tablet" -> "max-lg:"
    [] breakpoint = "mobile" -> "max-md:"

(***************************************************************************)
(* C24: prefixing and parsing are inverse.  For every breakpoint b, UI     *)
(* state s and unprefixed token t, parseFullClass of the prefixed token is *)
(* {b, s, t} and parseBreakpointClass(addBreakpointPrefix(b, t)) is        *)
(* {b, t}; the prefix of desktop is empty, of tablet 'max-lg:', of mobile  *)
(* 'max-md:'.                                                              *)
(***************************************************************************)
C24_PrefixParseRoundTrip ==
  /\ call.fn = "parseFullClass"
       => /\ ret = [breakpoint |-> call.breakpoint, uiState |-> call.uiState,
                    baseClass |-> classes[1]]
          /\ call.className = DesktopFirstPrefix(call.breakpoint)
                                 \o getUIStatePrefix(call.uiState) \o classes[1]
  /\ call.fn = "parseBreakpointClass"
       => /\ ret = [breakpoint |-> call.breakpoint, baseClass |-> classes[1]]
          /\ call.className = DesktopFirstPrefix(call.breakpoint) \o classes[1]

(***************************************************************************)
(* Specification SpecHeight: the renderer with the browser's timer queue.  *)
(* A timer set with setTimeout(f, 0) is run by the event loop once the     *)
(* running handler has returned, and nothing cancels it: the step          *)
(* HeightTimerFires is weakly fair.  SpecHeightUnfair is the same system    *)
(* without the assumption.                                                 *)
(***************************************************************************)

NextHeight ==
  \/ ReceiveSelectionLayers
  \/ ReceiveUpdateBreakpoint
  \/ ReceiveUpdateUIState
  \/ ReceiveEnableEditMode
  \/ HeightTimerFires
  \/ WindowResized

SpecHeightUnfair == InitRenderer /\ [][NextHeight]_vars

SpecHeight == SpecHeightUnfair /\ WF_vars(HeightTimerFires)

\* A handler that renders: the cases of the message listener that call
\* render(), directly or through updateBreakpoint() and updateUIState().
RenderingHandler ==
  \/ ReceiveSelectionLayers
  \/ ReceiveUpdateBreakpoint
  \/ ReceiveUpdateUIState
  \/ ReceiveEnableEditMode

\* A step in which a timer leaves the queue and CONTENT_HEIGHT is posted.
TimerReportsHeight ==
  /\ heightTimers' = heightTimers - 1
  /\ posted' = "CONTENT_HEIGHT"

(***************************************************************************)
(* C26: every render is eventually followed by a height report.  Each      *)
(* handler of UPDATE_LAYERS, UPDATE_BREAKPOINT, UPDATE_UI_STATE and        *)
(* ENABLE_EDIT_MODE (with an empty tree too) leaves one more timer         *)
(* pending; a timer leaves the queue only in a step that posts             *)
(* CONTENT_HEIGHT; and, given that scheduled timers eventually fire, the   *)
(* queue is empty again and again or timers report again and again, so     *)
(* that no render stays without a later report.                            *)
(***************************************************************************)
C26_RenderLeadsToHeightReport ==
  /\ [][RenderingHandler => heightTimers' = heightTimers + 1]_vars
  /\ [][heightTimers' < heightTimers => TimerReportsHeight]_vars
  /\ ([]<>(heightTimers = 0) \/ []<><<TimerReportsHeight>>_vars)

\* A render of an empty tree has happened and its timer is pending.
C26_Witness ==
  /\ heightTimers > 0
  /\ layers = <<>>
  /\ dom = <<NoLayersPlaceholder>>

(***************************************************************************)
(* Specification SpecNested: the renderer receiving trees in which the     *)
(* field-bound and the inline-variable text of a collection layer lie      *)
(* under a number of layers without collection binding.                    *)
(***************************************************************************)
MaxDepth == 2

BoxIds == <<"box1", "box2", "box3", "box4">>

RECURSIVE Nest(_)
\* The field-bound text and the inline-variable text under depth boxes.
Nest(depth) ==
  IF depth = 0 THEN <<PriceLayer, InlineLayer>>
  ELSE <<[Layer(BoxIds[depth], "div") EXCEPT !.children = Nest(depth - 1)]>>

NestedScene(depth, items) ==
  [layers |-> <<[Layer("list", "div") EXCEPT
                   !.variables.collection =
                      CollectionVariable("c1", "manual", NULL),
                   !.children = Nest(depth)]>>,
   selectedLayerId |-> NULL, componentMap |-> <<>>, editingComponentId |-> NULL,
   collectionItems |-> << <<"c1", items>> >>,
   collectionFields |-> << <<"c1", FieldsOfC1>> >>]

NestedPayloads ==
  {NestedScene(depth, items) : depth \in 0..MaxDepth, items \in ItemLists}

ReceiveNestedLayers == ReceiveUpdateLayersOf(NestedPayloads)

NextNested ==
  \/ ReceiveNestedLayers
  \/ ReceiveEnableEditMode
  \/ HeightTimerFires

SpecNested == InitRenderer /\ [][NextNested]_vars

\* The elements of the layer at any depth below the element.
DescendantsOf(element, layerId) ==
  {e \in AllElements(element.children) : e.layerId = layerId}

\* The wrapper nodes of the rendered tree.
Wrappers == {e \in AllElements(dom) : e.itemId # NULL}

\* The records of the collection with the id.
RecordsWithId(collectionId, itemId) ==
  {r \in Range(Get(collectionItems, collectionId, <<>>)) : r.id = itemId}

(***************************************************************************)
(* C27: within one repetition of a collection layer the record's values    *)
(* reach the descendants at every depth.  In every wrapper node the        *)
(* field-bound text and the inline-variable text, however many layers      *)
(* without collection binding lie above them, show the values of the       *)
(* wrapper's record, resolved with the collection's field list: never      *)
(* those of another record and never those of no record.                   *)
(***************************************************************************)
C27_RecordReachesEveryDepth ==
  \A wrapper \in Wrappers :
    \A record \in RecordsWithId("c1", wrapper.itemId) :
      /\ Cardinality(DescendantsOf(wrapper, "price")) = 1
      /\ Cardinality(DescendantsOf(wrapper, "inline")) = 1
      /\ \A e \in DescendantsOf(wrapper, "price") :
           e.textContent = RecordText(record, "f2")
      /\ \A e \in DescendantsOf(wrapper, "inline") :
           e.textContent = "Hi " \o RecordText(record, "f1") \o "!"

\* Two records are repeated with the texts under MaxDepth boxes; the second
\* wrapper shows the second record's values.
C27_Witness ==
  /\ layers = NestedScene(MaxDepth, SubSeq(AllRecords, 1, 2)).layers
  /\ Cardinality(Wrappers) = 2
  /\ \E wrapper \in Wrappers :
       /\ wrapper.itemId = "r2"
       /\ wrapper.children[1].layerId = BoxIds[MaxDepth]
       /\ \E e \in DescendantsOf(wrapper, "inline") : e.textContent = "Hi alpha!"
       /\ \E e \in DescendantsOf(wrapper, "price") : e.textContent = "9"

(***************************************************************************)
(* Specification SpecWriteRead: a token is written with setBreakpointClass *)
(* and read back with getInheritedValue, or written a second time.         *)
(***************************************************************************)

\* <<property, token>>: the values that are written
Writes == { <<"width", "w-[9px]">>, <<"fontSize", "text-[2rem]">> }

InitWriteRead ==
  /\ RendererConstructed
  /\ classes \in ListsUpTo(BreakpointTokens, MaxClasses)
  /\ call = NoCall
  /\ ret = NULL

\* getInheritedValue(setBreakpointClass(tokens, property, t, b, s), property, b, s)
CallWriteThenRead ==
  /\ call = NoCall
  /\ \E write \in Writes, breakpoint \in Breakpoints, uiState \in BreakpointStates :
       /\ call' = [fn |-> "getInheritedValue", property |-> write[1],
                   newClass |-> write[2], breakpoint |-> breakpoint,
                   uiState |-> uiState]
       /\ ret' = getInheritedValue(
                   setBreakpointClass(classes, write[1], write[2], breakpoint, uiState),
                   write[1], breakpoint, uiState)
  /\ UNCHANGED <<classes, rendererVars, builderVars>>

\* setBreakpointClass(setBreakpointClass(tokens, property, t, b, s), property, t, b, s)
CallWriteTwice ==
  /\ call = NoCall
  /\ \E write \in Writes, breakpoint \in Breakpoints, uiState \in BreakpointStates :
       /\ call' = [fn |-> "setBreakpointClass", property |-> write[1],
                   newClass |-> write[2], breakpoint |-> breakpoint,
                   uiState |-> uiState]
       /\ ret' = setBreakpointClass(
                   setBreakpointClass(classes, write[1], write[2], breakpoint, uiState),
                   write[1], write[2], breakpoint, uiState)
  /\ UNCHANGED <<classes, rendererVars, builderVars>>

NextWriteRead ==
  \/ CallWriteThenRead
  \/ CallWriteTwice

SpecWriteRead == InitWriteRead /\ [][NextWriteRead]_vars

\* Positions of the tokens that the codec's parser places at (breakpoint,
\* uiState) and that implement property.
TokensFor(cs, property, breakpoint, uiState) ==
  {i \in 1..Len(cs) :
     /\ parseFullClass(cs[i]).breakpoint = breakpoint
     /\ parseFullClass(cs[i]).uiState = uiState
     /\ shouldIncludeClassForProperty(parseFullClass(cs[i]).baseClass, property)}

(***************************************************************************)
(* C28: write-then-read.  getInheritedValue of the list that                *)
(* setBreakpointClass wrote token t into, for the same property,           *)
(* breakpoint b and state s, reports the value t with source b; and        *)
(* writing twice with the same arguments leaves exactly one token of the   *)
(* property for (b, s) -- at mobile as at tablet and desktop.              *)
(***************************************************************************)
C28_WriteThenRead ==
  /\ call.fn = "getInheritedValue"
       => ret = [value |-> call.newClass, source |-> call.breakpoint]
  /\ call.fn = "setBreakpointClass"
       => \A i \in 1..Len(ret) :
            i \in TokensFor(ret, call.property, call.breakpoint, call.uiState)
              <=> i = Len(ret)

(***************************************************************************)
(* Specification SpecHandshake: the builder and its three preview iframes. *)
(* Each iframe loads the renderer script at a time of its own; the script  *)
(* posts READY when it has run (canvas-renderer.js line 989).  A message   *)
(* posted to an iframe's window is handled by the renderer's listener if   *)
(* the script has run when the message is dispatched, and by nothing       *)
(* otherwise.  A tree is represented by its version: 0 is the renderer's   *)
(* initial empty tree, the builder's trees are numbered from 1.            *)
(***************************************************************************)
MaxEdits == 1

UpdateLayersMessage(version) == [type |-> "UPDATE_LAYERS", payload |-> version]

UpdateBreakpointMessage(breakpoint) ==
  [type |-> "UPDATE_BREAKPOINT", payload |-> breakpoint]

\* sendToAllIframes(message), lines 1932-1943
sendToAllIframes(channels, message) ==
  [f \in Viewports |-> Append(channels[f], message)]

\* The effect of lines 1964-1990: each iframe is sent its own breakpoint.
SendBreakpoints(channels) ==
  [f \in Viewports |-> Append(channels[f], UpdateBreakpointMessage(f))]

\* The renderer script of an iframe runs: its state is the initial one and
\* READY is posted to the builder.
IframeLoads ==
  /\ \E f \in Viewports :
       /\ ~iframes[f].loaded
       /\ iframes' = [iframes EXCEPT ![f].loaded = TRUE]
  /\ toBuilder' = toBuilder + 1
  /\ UNCHANGED <<iframeReady, builderLayers, toIframe, mapperVars, rendererVars>>

\* case 'READY' (lines 2007-2009): setIframeReady(true).  When the flag
\* changes the component renders again and the effects that depend on it run
\* (lines 1946-1961 and 1964-1990); when it is true already the state does
\* not change and no effect runs.
BuilderReceivesReady ==
  /\ toBuilder > 0
  /\ toBuilder' = toBuilder - 1
  /\ iframeReady' = TRUE
  /\ toIframe' = IF iframeReady THEN toIframe
                 ELSE SendBreakpoints(
                        sendToAllIframes(toIframe, UpdateLayersMessage(builderLayers)))
  /\ UNCHANGED <<builderLayers, iframes, mapperVars, rendererVars>>

\* The builder's tree changes; the effect of lines 1946-1961 runs and sends
\* the tree when iframeReady is true.
BuilderLayersChange ==
  /\ builderLayers <= MaxEdits
  /\ builderLayers' = builderLayers + 1
  /\ toIframe' = IF iframeReady
                 THEN sendToAllIframes(toIframe, UpdateLayersMessage(builderLayers + 1))
                 ELSE toIframe
  /\ UNCHANGED <<iframeReady, iframes, toBuilder, mapperVars, rendererVars>>

\* A message is dispatched at an iframe's window: the renderer's listener
\* (lines 37-83) handles it if the script has run.
IframeReceives ==
  /\ \E f \in Viewports :
       /\ toIframe[f] # <<>>
       /\ toIframe' = [toIframe EXCEPT ![f] = Tail(toIframe[f])]
       /\ iframes' =
            IF ~iframes[f].loaded THEN iframes
            ELSE IF Head(toIframe[f]).type = "UPDATE_LAYERS"
            THEN [iframes EXCEPT ![f].layers = Head(toIframe[f]).payload]
            ELSE [iframes EXCEPT ![f].currentBreakpoint = Head(toIframe[f]).payload]
  /\ UNCHANGED <<iframeReady, builderLayers, toBuilder, mapperVars, rendererVars>>

NextHandshake ==
  \/ IframeLoads
  \/ BuilderReceivesReady
  \/ BuilderLayersChange
  \/ IframeReceives

SpecHandshake == InitRenderer /\ [][NextHandshake]_vars

\* No message is under way.
Quiescent == toBuilder = 0 /\ \A f \in Viewports : toIframe[f] = <<>>

(***************************************************************************)
(* C30: every iframe that has posted READY is afterwards sent the          *)
(* builder's current tree and the breakpoint of its viewport, whatever the *)
(* order of the READY messages and also when the tree does not change      *)
(* afterwards: once every message has been handled, no iframe whose script *)
(* has run is left with the initial empty tree, an outdated tree or a      *)
(* breakpoint that is not its own.                                         *)
(***************************************************************************)
C30_EveryReadyIframeIsSynchronised ==
  Quiescent =>
    \A f \in Viewports :
      iframes[f].loaded =>
        /\ iframes[f].layers = builderLayers
        /\ iframes[f].currentBreakpoint = f

=============================================================================
